---- MODULE Spec2Model ----
(***************************************************************************)
(* A model of the railway library (Option, Result, Async, AsyncResult,     *)
(* pipe) as a state machine: the promise heap of the host runtime          *)
(* (promises, their reactions, the FIFO microtask queue), the Async and    *)
(* AsyncResult operations that attach continuations to it, and the         *)
(* synchronous operations of Result, Option and pipe.                      *)
(*                                                                         *)
(*   Spec           a chain of operations attached after AsyncResult.wrap  *)
(*   SpecFair       the same chain under a fair runtime                    *)
(*   SpecBranch     operations attached to any AsyncResult made so far     *)
(*   SpecOfPromise  Result.ofPromise called with a promise or a function   *)
(*   SpecAsync      a chain of operations on an Async                      *)
(*   SpecResult     a chain of operations on a synchronous Result          *)
(*   SpecSync       a static constructor of Result or Option, then method  *)
(*                  and curried static calls on the wrapper it returned    *)
(*   SpecPipe       pipe(v), then chain and value on the pipes made        *)
(*                                                                         *)
(* JavaScript values are sequences of strings:                             *)
(*   <<"x">>                      a plain value                            *)
(*   <<"value">> \o v             the object {type: "value", value: v}     *)
(*   <<"error">> \o e             the object {type: "error", error: e}     *)
(*   <<"Result">> \o u            a Result instance holding underlying u   *)
(*   <<"Promise", id>>            a reference to promise id                *)
(*   <<"AsyncResult", id>>        an AsyncResult whose value is promise id *)
(*   <<"Option">> \o v            an Option instance holding value v       *)
(*   <<"Async", id>>              an Async whose value is promise id       *)
(*   <<"Pipe">> \o v              a pipe closed over value v               *)
(*   <<"Error", message>>         an Error object                          *)
(***************************************************************************)
EXTENDS Integers, Sequences, FiniteSets, TLC

\* Longest chain of operations attached after AsyncResult.wrap, and longest
\* chain of operations applied to a synchronous Result.
MaxOps == 2

\* The most method calls made on a wrapper built by a static constructor.
MaxCalls == 2

VARIABLES
    promises,   \* the heap: promise id -> [st, val, handled, origin]
    reactions,  \* promise id -> the reactions registered on a pending promise
    jobs,       \* the microtask queue (FIFO)
    phase,      \* "script": synchronous code runs; "drain": microtasks run
    chain,      \* the AsyncResult operations performed so far, in order
    input,      \* what was handed to AsyncResult.wrap
    log,        \* every invocation of a caller-supplied callback, in order
    rstart,     \* the synchronous Result a chain of Result operations began with
    res,        \* the Result the last operation of that chain returned
    rops,       \* the operations applied so far, in order
    rlog,       \* every invocation of a callback by those operations
    rthrown,    \* what escaped to the caller of the chain (<<>>: nothing)
    made,       \* the call of a static constructor: which, its argument, its outcome
    cur,        \* the wrapper the caller holds: what was returned to it last
    hist,       \* the method calls made on cur so far, in order, with their outcome
    calls       \* every invocation of a callback by the constructor or a method

avars == <<promises, reactions, jobs, phase, chain, input, log>>
rvars == <<rstart, res, rops, rlog, rthrown>>
svars == <<made, cur, hist, calls>>
vars == <<promises, reactions, jobs, phase, chain, input, log,
          rstart, res, rops, rlog, rthrown,
          made, cur, hist, calls>>

----------------------------------------------------------------------------
\* Values

Undefined == <<"undefined">>

\* value instanceof Result
IsResult(v) == Len(v) > 0 /\ v[1] = "Result"

\* value instanceof Promise
IsPromise(v) == Len(v) > 0 /\ v[1] = "Promise"

IsAsyncResult(v) == Len(v) > 0 /\ v[1] = "AsyncResult"

PromiseRef(id) == <<"Promise", ToString(id)>>

AsyncResultOf(id) == <<"AsyncResult", ToString(id)>>

\* The promise a reference (or an AsyncResult's private value field) names.
RefId(v) == CHOOSE i \in 1..64 : ToString(i) = v[2]

UnderlyingValue(v) == <<"value">> \o v

UnderlyingError(e) == <<"error">> \o e

\* Mutant: an Error is told by its payload being an Error object.
valueIsError_InstanceOfError(u) == Tail(u)[1] = "Error"

valueIsError(u) == u[1] = "error"

valueIsOk(u) == u[1] = "value"

\* new Result(u)
NewResult(u) == <<"Result">> \o u

\* this.value of a Result
Underlying(r) == Tail(r)

\* this.value.value / this.value.error
Payload(u) == Tail(u)

ofValue(v) == NewResult(UnderlyingValue(v))

ofError(e) == NewResult(UnderlyingError(e))

isError(r) == valueIsError(Underlying(r))

isOk(r) == ~isError(r)

\* Other values of the host language.  A value written with one string is a
\* primitive; null and undefined are the two absent ones.
Null == <<"null">>

Zero == <<"0">>

False == <<"false">>

True == <<"true">>

EmptyString == <<"">>

Bool(b) == IF b THEN True ELSE False

\* new Error(message)
NewError(message) == <<"Error", message>>

\* {hello: "world", foo: true}
PlainObject == <<"Object", "hello", "world", "foo", "true">>

\* typeof v
TypeOf(v) ==
    CASE v = Undefined -> "undefined"
      [] v = Zero -> "number"
      [] v \in {False, True} -> "boolean"
      [] Len(v) = 1 /\ v # Null -> "string"
      [] OTHER -> "object"

\* new WrappedResultError(message, originalError)
WrappedResultError(message, orig) == <<"WrappedResultError", message>> \o orig

\* ex.originalError: undefined on an object that has no such property
originalError(ex) ==
    IF Len(ex) >= 2 /\ ex[1] = "WrappedResultError"
    THEN SubSeq(ex, 3, Len(ex))
    ELSE Undefined

----------------------------------------------------------------------------
\* The host runtime's promises.  A heap H is [ps, rx, jobs]: the promises,
\* the reactions registered on each, and the microtask queue.

Heap == [ps |-> promises, rx |-> reactions, jobs |-> jobs]

LastId(H) == Len(H.ps)

\* A promise created by the source expression `origin`.
NewPromise(H, st, val, origin) ==
    [H EXCEPT !.ps = Append(@, [st |-> st, val |-> val, handled |-> FALSE,
                                origin |-> origin]),
              !.rx = Append(@, <<>>)]

\* The microtask that runs one reaction of a promise settled as st with val.
ReactionJob(r, st, val) ==
    [type |-> "reaction",
     h |-> IF st = "fulfilled" THEN r.onF ELSE r.onR,
     rejected |-> (st = "rejected"),
     cb |-> r.cb, dst |-> r.dst, arg |-> val]

\* NewPromiseResolveThenableJob: dst was resolved with promise src.
ThenableJob(dst, src) ==
    [type |-> "thenable", h |-> "none", rejected |-> FALSE,
     cb |-> 0, dst |-> dst, arg |-> PromiseRef(src)]

\* Mutant: marking p as handled builds its record anew, pending.
AddReaction_Resets(H, p, r) ==
    LET H1 == [H EXCEPT !.ps[p] = [st |-> "pending", val |-> <<>>, handled |-> TRUE,
                                    origin |-> H.ps[p].origin]]
    IN  [H1 EXCEPT !.rx[p] = Append(@, r)]

\* Mutant: a promise keeps one reaction, the one registered last.
AddReaction_Replaces(H, p, r) ==
    LET H1 == [H EXCEPT !.ps[p].handled = TRUE]
    IN  IF H.ps[p].st = "pending"
        THEN [H1 EXCEPT !.rx[p] = <<r>>]
        ELSE [H1 EXCEPT !.jobs = Append(@, ReactionJob(r, H.ps[p].st, H.ps[p].val))]

\* Registers reaction r on promise p: kept while p is pending, queued as a
\* microtask at once when p is already settled.  p counts as handled.
AddReaction(H, p, r) ==
    LET H1 == [H EXCEPT !.ps[p].handled = TRUE]
    IN  IF H.ps[p].st = "pending"
        THEN [H1 EXCEPT !.rx[p] = Append(@, r)]
        ELSE [H1 EXCEPT !.jobs = Append(@, ReactionJob(r, H.ps[p].st, H.ps[p].val))]

\* p.then(onF, onR): the derived promise is LastId of the heap returned.
\* cb names the caller-supplied callback the handlers close over (0: none).
Then(H, p, onF, onR, cb, origin) ==
    LET H1 == NewPromise(H, "pending", <<>>, origin)
    IN  AddReaction(H1, p, [onF |-> onF, onR |-> onR, cb |-> cb, dst |-> LastId(H1)])

\* p.catch(onR)
Catch(H, p, onR, cb, origin) == Then(H, p, "none", onR, cb, origin)

\* Mutant: the reactions registered on p are dropped when p settles.
Settle_DropsReactions(H, p, st, val) ==
    [H EXCEPT !.ps[p].st = st, !.ps[p].val = val, !.rx[p] = <<>>]

\* Fulfils or rejects pending promise p and queues its reactions in the
\* order they were registered.
Settle(H, p, st, val) ==
    LET rs == H.rx[p]
        js == [i \in 1..Len(rs) |-> ReactionJob(rs[i], st, val)]
    IN  [H EXCEPT !.ps[p].st = st, !.ps[p].val = val,
                  !.rx[p] = <<>>, !.jobs = @ \o js]

\* The resolve function of promise p called with x: a promise is adopted
\* one microtask later, anything else fulfils p.
Resolve(H, p, x) ==
    IF IsPromise(x)
    THEN [H EXCEPT !.jobs = Append(@, ThenableJob(p, RefId(x)))]
    ELSE Settle(H, p, "fulfilled", x)

\* Promise.resolve(x) for an x that is not a promise
PromiseResolve(H, x, origin) == NewPromise(H, "fulfilled", x, origin)

\* Promise.reject(e)
PromiseReject(H, e, origin) == NewPromise(H, "rejected", e, origin)

----------------------------------------------------------------------------
\* Caller-supplied callbacks.  What a callback does when it is invoked is
\* chosen at the invocation, from the behaviours below; the outcome of a call
\* is [out, val]: it returned val or threw val.

Returned(v) == [out |-> "return", val |-> v]

Threw(v) == [out |-> "throw", val |-> v]

\* A mapper: returns a plain value computed from its argument, returns a
\* Result, or throws.
FnBehaviours == {"plain", "result", "throw"}

\* A hook given to iter/iterError: returns nothing, returns a value, throws.
HookBehaviours == {"nothing", "value", "throw"}

\* A function given to AsyncResult.bind/bindError: returns AsyncResult.wrap
\* of a promise that settles later (see SettleBound), AsyncResult.wrap of an
\* Error Result, an AsyncResult built on a rejected promise, or throws.
BinderBehaviours == {"wrapPending", "wrapError", "rejecting", "throw"}

CallFn(beh, arg) ==
    CASE beh = "plain"   -> Returned(<<"f">> \o arg)
      [] beh = "result"  -> Returned(ofError(<<"r">>))
      [] beh = "nothing" -> Returned(Undefined)
      [] beh = "null"    -> Returned(Null)
      [] beh = "value"   -> Returned(<<"h">>)
      [] OTHER           -> Threw(<<"t">>)

----------------------------------------------------------------------------
\* Result (src/src/result.ts, the first class of the file).  An operation
\* that takes a callback takes the behaviour beh the callback shows; the
\* outcome is [out, val, called, arg, ret]: what the operation returned or
\* threw, whether it invoked the callback, with which argument, and what the
\* callback itself returned or threw.

NotCalled(v) ==
    [out |-> "return", val |-> v, called |-> FALSE, arg |-> <<>>, ret |-> Returned(<<>>)]

Called(out, v, arg, c) ==
    [out |-> out, val |-> v, called |-> TRUE, arg |-> arg, ret |-> c]

\* r.map(mapper)
Result_map(r, beh) ==
    IF valueIsOk(Underlying(r))
    THEN LET c == CallFn(beh, Payload(Underlying(r)))
         IN  IF c.out = "throw"
             THEN Called("throw", c.val, Payload(Underlying(r)), c)
             ELSE Called("return", ofValue(c.val), Payload(Underlying(r)), c)
    ELSE NotCalled(ofError(Payload(Underlying(r))))

\* Mutant: a mapper that throws is caught and the Error kept as it was.
Result_mapError_KeepsError(r, beh) ==
    IF valueIsError(Underlying(r))
    THEN LET c == CallFn(beh, Payload(Underlying(r)))
         IN  IF c.out = "throw"
             THEN Called("return", r, Payload(Underlying(r)), c)
             ELSE Called("return", ofValue(c.val), Payload(Underlying(r)), c)
    ELSE NotCalled(r)

\* Mutant: written after map, the mapped value stays on the Error channel.
Result_mapError_StaysError(r, beh) ==
    IF valueIsError(Underlying(r))
    THEN LET c == CallFn(beh, Payload(Underlying(r)))
         IN  IF c.out = "throw"
             THEN Called("throw", c.val, Payload(Underlying(r)), c)
             ELSE Called("return", ofError(c.val), Payload(Underlying(r)), c)
    ELSE NotCalled(r)

\* Mutant: written after iter, the mapper is invoked whatever the variant.
Result_mapError_Always(r, beh) ==
    LET c == CallFn(beh, Payload(Underlying(r)))
    IN  IF c.out = "throw"
        THEN Called("throw", c.val, Payload(Underlying(r)), c)
        ELSE Called("return", IF valueIsError(Underlying(r)) THEN ofValue(c.val) ELSE r,
                    Payload(Underlying(r)), c)

\* r.mapError(mapper)
Result_mapError(r, beh) ==
    IF valueIsError(Underlying(r))
    THEN LET c == CallFn(beh, Payload(Underlying(r)))
         IN  IF c.out = "throw"
             THEN Called("throw", c.val, Payload(Underlying(r)), c)
             ELSE Called("return", ofValue(c.val), Payload(Underlying(r)), c)
    ELSE NotCalled(r)

\* Mutant: the mapper is invoked whatever the variant.
Result_bind_Always(r, beh) ==
    LET c == CallFn(beh, Payload(Underlying(r)))
    IN  IF c.out = "throw"
        THEN Called("throw", c.val, Payload(Underlying(r)), c)
        ELSE Called("return", IF IsResult(c.val) THEN c.val ELSE ofValue(c.val),
                    Payload(Underlying(r)), c)

\* r.bind(mapper): the mapper returns a Result (an Ok of a plain value or the
\* Result CallFn builds) or throws.
Result_bind(r, beh) ==
    IF valueIsOk(Underlying(r))
    THEN LET c == CallFn(beh, Payload(Underlying(r)))
         IN  IF c.out = "throw"
             THEN Called("throw", c.val, Payload(Underlying(r)), c)
             ELSE Called("return", IF IsResult(c.val) THEN c.val ELSE ofValue(c.val),
                         Payload(Underlying(r)), c)
    ELSE NotCalled(ofError(Payload(Underlying(r))))

\* Mutant: written after map, what the hook returned is wrapped and returned.
Result_iter_Maps(r, beh) ==
    IF valueIsOk(Underlying(r))
    THEN LET c == CallFn(beh, Payload(Underlying(r)))
         IN  IF c.out = "throw"
             THEN Called("throw", c.val, Payload(Underlying(r)), c)
             ELSE Called("return", ofValue(c.val), Payload(Underlying(r)), c)
    ELSE NotCalled(r)

\* Mutant: the hook is called inside try/catch.
Result_iter_Catches(r, beh) ==
    IF valueIsOk(Underlying(r))
    THEN Called("return", r, Payload(Underlying(r)), CallFn(beh, Payload(Underlying(r))))
    ELSE NotCalled(r)

\* r.iter(fn)
Result_iter(r, beh) ==
    IF valueIsOk(Underlying(r))
    THEN LET c == CallFn(beh, Payload(Underlying(r)))
         IN  IF c.out = "throw"
             THEN Called("throw", c.val, Payload(Underlying(r)), c)
             ELSE Called("return", r, Payload(Underlying(r)), c)
    ELSE NotCalled(r)

\* r.iterError(fn)
Result_iterError(r, beh) ==
    IF valueIsError(Underlying(r))
    THEN LET c == CallFn(beh, Payload(Underlying(r)))
         IN  IF c.out = "throw"
             THEN Called("throw", c.val, Payload(Underlying(r)), c)
             ELSE Called("return", r, Payload(Underlying(r)), c)
    ELSE NotCalled(r)

\* r.defaultValue(d)
Result_defaultValue(r, d) ==
    IF valueIsOk(Underlying(r)) THEN Payload(Underlying(r)) ELSE d

\* An operation that invokes no callback threw v.
Failed(v) ==
    [out |-> "throw", val |-> v, called |-> FALSE, arg |-> <<>>, ret |-> Returned(<<>>)]

\* r.getValue()
Result_getValue(r) ==
    IF valueIsError(Underlying(r))
    THEN Failed(WrappedResultError(
             "Attempted to get the raw value of a Result, but the value was an Error.",
             Payload(Underlying(r))))
    ELSE NotCalled(Payload(Underlying(r)))

\* r.getError()
Result_getError(r) ==
    IF ~valueIsError(Underlying(r))
    THEN Failed(NewError(
             "Attempted to get the Error of a Result, but the value was not an Error. Value type was "
             \o TypeOf(Payload(Underlying(r))) \o "."))
    ELSE NotCalled(Payload(Underlying(r)))

\* What a niladic computation given to Result.ofFunction does.
ComputationBehaviours == {"plain", "result", "nothing", "throw"}

\* Mutant: no try/catch around the computation.
Result_ofFunction_NoCatch(beh) ==
    LET c == CallFn(beh, <<>>)
    IN  IF c.out = "throw"
        THEN Called("throw", c.val, <<>>, c)
        ELSE Called("return", ofValue(c.val), <<>>, c)

\* Result.ofFunction(computation)
Result_ofFunction(beh) ==
    LET c == CallFn(beh, <<>>)
    IN  IF c.out = "throw"
        THEN Called("return", ofError(c.val), <<>>, c)
        ELSE Called("return", ofValue(c.val), <<>>, c)

----------------------------------------------------------------------------
\* Option (src/src/option.ts).  An Option holds a value; the one built with
\* no value holds undefined.

\* value instanceof Option
IsOption(v) == Len(v) > 0 /\ v[1] = "Option"

\* new Option(value)
NewOption(v) == <<"Option">> \o v

\* this.value
OptionValue(o) == Tail(o)

\* Mutant: a value is told by its truthiness.
_isSome_Truthy(v) == v \notin {Undefined, Null, Zero, False, EmptyString}

_isSome(v) == v # Undefined /\ v # Null

_isNone(v) == ~_isSome(v)

\* The error Option.ofSome throws on an absent value.
InvalidArgument == NewError("Option.some received a value that was null or undefined.")

\* Mutant: any value is wrapped.
Option_ofSome_Unchecked(v) == NotCalled(NewOption(v))

\* Option.ofSome(value)
Option_ofSome(v) ==
    IF _isNone(v)
    THEN Failed(InvalidArgument)
    ELSE NotCalled(NewOption(v))

\* Option.ofNone()
Option_ofNone == NewOption(Undefined)

\* o.isSome()
Option_isSome(o) == _isSome(OptionValue(o))

\* o.isNone()
Option_isNone(o) == _isNone(OptionValue(o))

\* The error get() throws on an Option that holds no value.
EmptyValueAccess ==
    NewError("Attempted to get an option value that was none. Use Option.isSome to check if an option has a value before using it.")

\* o.get()
Option_get(o) ==
    IF _isNone(OptionValue(o))
    THEN Failed(EmptyValueAccess)
    ELSE NotCalled(OptionValue(o))

\* A mapper given to Option.map: returns a value computed from its argument,
\* returns nothing, returns null, or throws.
OptionMapperBehaviours == {"plain", "nothing", "null", "throw"}

\* Mutant: the mapper is invoked whatever the Option holds.
Option_map_Always(o, beh) ==
    LET c == CallFn(beh, OptionValue(o))
        w == Option_ofSome(c.val)
    IN  IF c.out = "throw" THEN Called("throw", c.val, OptionValue(o), c)
        ELSE IF w.out = "throw" THEN Called("throw", w.val, OptionValue(o), c)
        ELSE Called("return", w.val, OptionValue(o), c)

\* o.map(mapper)
Option_map(o, beh) ==
    IF _isSome(OptionValue(o))
    THEN LET c == CallFn(beh, OptionValue(o))
             w == Option_ofSome(c.val)
         IN  IF c.out = "throw" THEN Called("throw", c.val, OptionValue(o), c)
             ELSE IF w.out = "throw" THEN Called("throw", w.val, OptionValue(o), c)
             ELSE Called("return", w.val, OptionValue(o), c)
    ELSE NotCalled(Option_ofNone)

\* A mapper given to Option.bind: returns Option.ofSome of a value computed
\* from its argument, returns Option.ofNone(), or throws.
OptionBinderBehaviours == {"some", "none", "throw"}

CallOptionBinder(beh, arg) ==
    CASE beh = "some" -> Returned(Option_ofSome(<<"f">> \o arg).val)
      [] beh = "none" -> Returned(Option_ofNone)
      [] OTHER        -> Threw(<<"t">>)

\* Mutant: written after map, what the mapper returned is wrapped.
Option_bind_Wraps(o, beh) ==
    IF _isSome(OptionValue(o))
    THEN LET c == CallOptionBinder(beh, OptionValue(o))
             w == Option_ofSome(c.val)
         IN  IF c.out = "throw" THEN Called("throw", c.val, OptionValue(o), c)
             ELSE Called("return", w.val, OptionValue(o), c)
    ELSE NotCalled(Option_ofNone)

\* o.bind(mapper)
Option_bind(o, beh) ==
    IF _isSome(OptionValue(o))
    THEN LET c == CallOptionBinder(beh, OptionValue(o))
         IN  IF c.out = "throw" THEN Called("throw", c.val, OptionValue(o), c)
             ELSE Called("return", c.val, OptionValue(o), c)
    ELSE NotCalled(Option_ofNone)

\* What a caller passes as a default.
DefaultChoices == {<<"d">>, Zero}

\* o.defaultValue(defaultValue)
Option_defaultValue(o, d) ==
    IF _isSome(OptionValue(o)) THEN NotCalled(OptionValue(o)) ELSE NotCalled(d)

\* A function given to Option.defaultWith: returns a value, returns nothing,
\* or throws.  It takes no argument.
DefaultBehaviours == {"value", "nothing", "throw"}

\* Mutant: the default is computed before the Option is looked at.
Option_defaultWith_Eager(o, beh) ==
    LET c == CallFn(beh, <<>>)
    IN  IF c.out = "throw" THEN Called("throw", c.val, <<>>, c)
        ELSE IF _isSome(OptionValue(o)) THEN Called("return", OptionValue(o), <<>>, c)
        ELSE Called("return", c.val, <<>>, c)

\* o.defaultWith(fn)
Option_defaultWith(o, beh) ==
    IF _isSome(OptionValue(o))
    THEN NotCalled(OptionValue(o))
    ELSE LET c == CallFn(beh, <<>>)
         IN  IF c.out = "throw" THEN Called("throw", c.val, <<>>, c)
             ELSE Called("return", c.val, <<>>, c)

\* o.iter(fn): the method has no return statement, the call evaluates to
\* undefined.
Option_iter(o, beh) ==
    IF _isSome(OptionValue(o))
    THEN LET c == CallFn(beh, OptionValue(o))
         IN  IF c.out = "throw" THEN Called("throw", c.val, OptionValue(o), c)
             ELSE Called("return", Undefined, OptionValue(o), c)
    ELSE NotCalled(Undefined)

\* What the runtime throws when a method is read off undefined.
TypeError(message) == <<"TypeError", message>>

----------------------------------------------------------------------------
\* AsyncResult (src/src/asyncresult.ts, the second class of the file).  An
\* operation takes a heap and returns [H, p]: the heap after it and the
\* promise held by the AsyncResult it returns.

\* Result.ofPromise(promise) for a promise p
Result_ofPromise(H, p) ==
    LET H1 == Then(H, p, "ofPromise.then", "none", 0, "ofPromise.then")
        H2 == Catch(H1, LastId(H1), "ofPromise.catch", 0, "ofPromise.catch")
        H3 == Then(H2, LastId(H2), "ofPromise.final", "none", 0, "ofPromise.final")
    IN  [H |-> H3, p |-> LastId(H3)]

\* Mutant: no catch() on a wrapped promise.
AsyncResult_wrap_NoCatch(H, value) ==
    IF IsResult(value)
    THEN LET H1 == PromiseResolve(H, value, "wrap.resolve")
         IN  [H |-> H1, p |-> LastId(H1)]
    ELSE IF IsPromise(value)
    THEN LET H1 == Then(H, RefId(value), "wrap.then", "none", 0, "wrap.then")
         IN  [H |-> H1, p |-> LastId(H1)]
    ELSE LET H1 == PromiseResolve(H, value, "wrap.resolve")
         IN  Result_ofPromise(H1, LastId(H1))

\* AsyncResult.wrap(value)
AsyncResult_wrap(H, value) ==
    IF IsResult(value)
    THEN LET H1 == PromiseResolve(H, value, "wrap.resolve")
         IN  [H |-> H1, p |-> LastId(H1)]
    ELSE IF IsPromise(value)
    THEN LET H1 == Then(H, RefId(value), "wrap.then", "none", 0, "wrap.then")
             H2 == Catch(H1, LastId(H1), "wrap.catch", 0, "wrap.catch")
         IN  [H |-> H2, p |-> LastId(H2)]
    ELSE LET H1 == PromiseResolve(H, value, "wrap.resolve")
         IN  Result_ofPromise(H1, LastId(H1))

\* a.map(fn), a holding promise recv, fn being callback cb
AsyncResult_map(H, recv, cb) ==
    LET H1 == Then(H, recv, "Result.map", "none", cb, "map.then")
    IN  AsyncResult_wrap(H1, PromiseRef(LastId(H1)))

\* a.mapError(fn)
AsyncResult_mapError(H, recv, cb) ==
    LET H1 == Then(H, recv, "Result.mapError", "none", cb, "mapError.then")
    IN  AsyncResult_wrap(H1, PromiseRef(LastId(H1)))

\* Mutant: the AsyncResult fn returned is not flattened with AsyncResult.get.
AsyncResult_bind_NoFlatten(H, recv, cb) ==
    LET H1 == Then(H, recv, "bind.async", "none", cb, "bind.then")
    IN  AsyncResult_wrap(H1, PromiseRef(LastId(H1)))

\* a.bind(fn)
AsyncResult_bind(H, recv, cb) ==
    LET H1 == Then(H, recv, "bind.async", "none", cb, "bind.then")
        H2 == Then(H1, LastId(H1), "AsyncResult.get", "none", 0, "bind.get")
    IN  AsyncResult_wrap(H2, PromiseRef(LastId(H2)))

\* a.bindError(fn)
AsyncResult_bindError(H, recv, cb) ==
    LET H1 == Then(H, recv, "bindError.async", "none", cb, "bindError.then")
        H2 == Then(H1, LastId(H1), "AsyncResult.get", "none", 0, "bindError.get")
    IN  AsyncResult_wrap(H2, PromiseRef(LastId(H2)))

\* Mutant: iter returns an AsyncResult on the promise then() derived.
AsyncResult_iter_Derived(H, recv, cb) ==
    LET H1 == Then(H, recv, "Result.iter", "none", cb, "iter.then")
    IN  AsyncResult_wrap(H1, PromiseRef(LastId(H1)))

\* a.iter(fn): the promise then() derives is dropped, and a itself returned
AsyncResult_iter(H, recv, cb) ==
    LET H1 == Then(H, recv, "Result.iter", "none", cb, "iter.then")
    IN  [H |-> H1, p |-> recv]

\* a.iterError(fn)
AsyncResult_iterError(H, recv, cb) ==
    LET H1 == Then(H, recv, "Result.iterError", "none", cb, "iterError.then")
    IN  [H |-> H1, p |-> recv]

----------------------------------------------------------------------------
\* The handlers passed to then() and catch().  Running handler h on arg gives
\* [H, out, val, called, arg, ret]: the heap after it and the outcome, as for
\* the operations of Result.

WithHeap(H, o) ==
    [H |-> H, out |-> o.out, val |-> o.val, called |-> o.called, arg |-> o.arg,
     ret |-> o.ret]

\* The function given to bind/bindError, invoked with arg
CallBinder(H, beh, arg) ==
    CASE beh = "wrapPending" ->
            LET H1 == NewPromise(H, "pending", <<>>, "binder.pending")
                w == AsyncResult_wrap(H1, PromiseRef(LastId(H1)))
            IN  [H |-> w.H, out |-> "return", val |-> AsyncResultOf(w.p)]
      [] beh = "wrapError" ->
            LET w == AsyncResult_wrap(H, ofError(<<"e2">>))
            IN  [H |-> w.H, out |-> "return", val |-> AsyncResultOf(w.p)]
      [] beh = "rejecting" ->
            LET H1 == PromiseReject(H, <<"rej">>, "binder.reject")
            IN  [H |-> H1, out |-> "return", val |-> AsyncResultOf(LastId(H1))]
      [] OTHER -> [H |-> H, out |-> "throw", val |-> <<"t">>]

\* The promise an async function returns: rejected with what the body threw,
\* fulfilled with what it returned (an AsyncResult, which is not a thenable).
AsyncReturn(c, called, arg) ==
    LET H1 == NewPromise(c.H, IF c.out = "throw" THEN "rejected" ELSE "fulfilled",
                         c.val, "async")
    IN  [H |-> H1, out |-> "return", val |-> PromiseRef(LastId(H1)),
         called |-> called, arg |-> arg,
         ret |-> IF called THEN [out |-> c.out, val |-> c.val] ELSE Returned(<<>>)]

\* Mutant: on Error the payload, not an Error Result of it, is wrapped.
BindAsync_WrapsPayload(H, result, beh) ==
    IF isOk(result)
    THEN AsyncReturn(CallBinder(H, beh, Payload(Underlying(result))), TRUE,
                     Payload(Underlying(result)))
    ELSE LET w == AsyncResult_wrap(H, Payload(Underlying(result)))
         IN  AsyncReturn([H |-> w.H, out |-> "return", val |-> AsyncResultOf(w.p)],
                         FALSE, <<>>)

\* async result => { if (result.isOk()) return fn(result.getValue());
\*                   return AsyncResult.wrap(Result.ofError(result.getError())) }
BindAsync(H, result, beh) ==
    IF isOk(result)
    THEN AsyncReturn(CallBinder(H, beh, Payload(Underlying(result))), TRUE,
                     Payload(Underlying(result)))
    ELSE LET w == AsyncResult_wrap(H, ofError(Payload(Underlying(result))))
         IN  AsyncReturn([H |-> w.H, out |-> "return", val |-> AsyncResultOf(w.p)],
                         FALSE, <<>>)

\* async result => { if (result.isError()) return fn(result.getError());
\*                   return AsyncResult.wrap(result.getValue()) }
BindErrorAsync(H, result, beh) ==
    IF isError(result)
    THEN AsyncReturn(CallBinder(H, beh, Payload(Underlying(result))), TRUE,
                     Payload(Underlying(result)))
    ELSE LET w == AsyncResult_wrap(H, Payload(Underlying(result)))
         IN  AsyncReturn([H |-> w.H, out |-> "return", val |-> AsyncResultOf(w.p)],
                         FALSE, <<>>)

\* AsyncResult.get: a => a.get()
AsyncResult_get(a) ==
    IF IsAsyncResult(a) THEN NotCalled(PromiseRef(RefId(a)))
    ELSE [out |-> "throw", val |-> <<"TypeError">>, called |-> FALSE, arg |-> <<>>,
          ret |-> Returned(<<>>)]

\* Mutant: every fulfilment value is wrapped, a Result too.
WrapThen_AlwaysOfValue(value) == NotCalled(ofValue(value))

\* value => (value instanceof Result ? value : Result.ofValue(value))
WrapThen(value) == NotCalled(IF IsResult(value) THEN value ELSE ofValue(value))

\* ex => Result.ofError(ex)
WrapCatch(ex) == NotCalled(ofError(ex))

\* x => ({type: "value", value: x})
OfPromiseThen(x) == NotCalled(UnderlyingValue(x))

\* e => ({type: "error", error: e})
OfPromiseCatch(e) == NotCalled(UnderlyingError(e))

\* r => (valueIsError(r) ? Result.ofError(r.error) : Result.ofValue(r.value))
OfPromiseFinal(r) ==
    NotCalled(IF valueIsError(r) THEN ofError(Payload(r)) ELSE ofValue(Payload(r)))

RunHandler(H, h, arg, beh) ==
    CASE h = "Result.map"       -> WithHeap(H, Result_map(arg, beh))
      [] h = "Result.mapError"  -> WithHeap(H, Result_mapError(arg, beh))
      [] h = "Result.iter"      -> WithHeap(H, Result_iter(arg, beh))
      [] h = "Result.iterError" -> WithHeap(H, Result_iterError(arg, beh))
      [] h = "bind.async"       -> BindAsync(H, arg, beh)
      [] h = "bindError.async"  -> BindErrorAsync(H, arg, beh)
      [] h = "AsyncResult.get"  -> WithHeap(H, AsyncResult_get(arg))
      [] h = "wrap.then"        -> WithHeap(H, WrapThen(arg))
      [] h = "wrap.catch"       -> WithHeap(H, WrapCatch(arg))
      [] h = "ofPromise.then"   -> WithHeap(H, OfPromiseThen(arg))
      [] h = "ofPromise.catch"  -> WithHeap(H, OfPromiseCatch(arg))
      [] OTHER                  -> WithHeap(H, OfPromiseFinal(arg))

\* The behaviours the callback of handler h can show on arg: those of the
\* callback when the handler invokes it, a single placeholder when not.
Behaviours(h, arg) ==
    CASE h \in {"Result.map", "Result.mapError"} /\ RunHandler(<<>>, h, arg, "plain").called
            -> FnBehaviours
      [] h \in {"Result.iter", "Result.iterError"} /\ RunHandler(<<>>, h, arg, "nothing").called
            -> HookBehaviours
      [] h = "bind.async" /\ isOk(arg) -> BinderBehaviours
      [] h = "bindError.async" /\ isError(arg) -> BinderBehaviours
      [] OTHER -> {"none"}

----------------------------------------------------------------------------
\* The program: a script wraps an input and chains operations on the
\* AsyncResult it got last; the runtime runs the microtasks when the script
\* yields (run to completion: no microtask runs while synchronous code does,
\* and the next piece of synchronous code starts when the queue is empty).

PlainInputs == {<<"x">>}

ResultInputs == {ofValue(<<"x">>), ofError(<<"e">>), ofValue(ofError(<<"e">>)),
                 ofError(ofValue(<<"x">>))}

\* What AsyncResult.wrap can be handed: a plain value, a Result, or a promise
\* (which settles later, see SettleInput).
InputChoices ==
    {[shape |-> "plain", val |-> v] : v \in PlainInputs}
    \cup {[shape |-> "result", val |-> r] : r \in ResultInputs}
    \cup {[shape |-> "promise", val |-> <<>>]}

\* How a promise handed to wrap can settle.
Settlements ==
    {[st |-> "fulfilled", val |-> v] : v \in PlainInputs \cup ResultInputs}
    \cup {[st |-> "rejected", val |-> <<"e">>]}

NoInput == [shape |-> "none", val |-> <<>>, p |-> 0, st |-> "pending"]

Install(H) ==
    /\ promises' = H.ps
    /\ reactions' = H.rx
    /\ jobs' = H.jobs

Stage(kind, recv, w, hook) == [kind |-> kind, recv |-> recv, p |-> w.p, hook |-> hook]

\* const a = AsyncResult.wrap(input)
Wrap ==
    /\ phase = "script"
    /\ chain = <<>>
    /\ \E c \in InputChoices :
        IF c.shape = "promise"
        THEN LET H1 == NewPromise(Heap, "pending", <<>>, "input")
                 w == AsyncResult_wrap(H1, PromiseRef(LastId(H1)))
             IN  /\ Install(w.H)
                 /\ chain' = <<Stage("wrap", 0, w, 0)>>
                 /\ input' = [shape |-> "promise", val |-> <<>>, p |-> LastId(H1),
                              st |-> "pending"]
        ELSE LET w == AsyncResult_wrap(Heap, c.val)
             IN  /\ Install(w.H)
                 /\ chain' = <<Stage("wrap", 0, w, 0)>>
                 /\ input' = [shape |-> c.shape, val |-> c.val, p |-> 0,
                              st |-> "fulfilled"]
    /\ UNCHANGED <<phase, log, rvars, svars>>

\* The promise handed to wrap settles (an event outside the chain).
SettleInput ==
    /\ phase = "script"
    /\ input.shape = "promise"
    /\ input.st = "pending"
    /\ \E s \in Settlements :
        /\ Install(Settle(Heap, input.p, s.st, s.val))
        /\ input' = [input EXCEPT !.st = s.st, !.val = s.val]
    /\ UNCHANGED <<phase, chain, log, rvars, svars>>

\* How a promise wrapped by a function given to bind/bindError can settle.
BoundSettlements ==
    {[st |-> "fulfilled", val |-> <<"g">>], [st |-> "rejected", val |-> <<"e3">>]}

\* A promise wrapped by a function given to bind/bindError settles (an event
\* outside the chain).
SettleBound ==
    /\ phase = "script"
    /\ \E q \in 1..Len(promises) :
        /\ promises[q].origin = "binder.pending"
        /\ promises[q].st = "pending"
        /\ \E s \in BoundSettlements : Install(Settle(Heap, q, s.st, s.val))
    /\ UNCHANGED <<phase, chain, input, log, rvars, svars>>

CanChain == phase = "script" /\ chain # <<>> /\ Len(chain) <= MaxOps

Receiver == chain[Len(chain)].p

\* The operation appended is stage Len(chain) + 1, and its callback has that
\* number.
Chained(kind, w, hook) ==
    /\ Install(w.H)
    /\ chain' = Append(chain, Stage(kind, Receiver, w, hook))
    /\ UNCHANGED <<phase, input, log, rvars, svars>>

Map == CanChain /\ Chained("map", AsyncResult_map(Heap, Receiver, Len(chain) + 1), 0)

MapError ==
    CanChain /\ Chained("mapError", AsyncResult_mapError(Heap, Receiver, Len(chain) + 1), 0)

Bind == CanChain /\ Chained("bind", AsyncResult_bind(Heap, Receiver, Len(chain) + 1), 0)

BindError ==
    CanChain /\ Chained("bindError", AsyncResult_bindError(Heap, Receiver, Len(chain) + 1), 0)

Iter ==
    /\ CanChain
    /\ LET w == AsyncResult_iter(Heap, Receiver, Len(chain) + 1)
       IN  Chained("iter", w, LastId(w.H))

IterError ==
    /\ CanChain
    /\ LET w == AsyncResult_iterError(Heap, Receiver, Len(chain) + 1)
       IN  Chained("iterError", w, LastId(w.H))

\* The synchronous code ends and the runtime starts on the microtask queue.
Yield ==
    /\ phase = "script"
    /\ jobs # <<>>
    /\ phase' = "drain"
    /\ UNCHANGED <<promises, reactions, jobs, chain, input, log, rvars, svars>>

Popped == [Heap EXCEPT !.jobs = Tail(jobs)]

AfterJob(H) ==
    /\ Install(H)
    /\ phase' = IF H.jobs = <<>> THEN "script" ELSE "drain"
    /\ UNCHANGED <<chain, input, rvars, svars>>

\* A reaction with no handler for the way its promise settled hands the
\* settlement on to the derived promise.
RunPassThrough ==
    /\ phase = "drain" /\ jobs # <<>>
    /\ LET j == Head(jobs)
       IN  /\ j.type = "reaction"
           /\ j.h = "none"
           /\ AfterJob(IF j.rejected THEN Settle(Popped, j.dst, "rejected", j.arg)
                       ELSE Resolve(Popped, j.dst, j.arg))
    /\ UNCHANGED log

\* A reaction runs its handler and settles the derived promise with what the
\* handler returned or threw.
RunHandlerJob ==
    /\ phase = "drain" /\ jobs # <<>>
    /\ LET j == Head(jobs)
       IN  /\ j.type = "reaction"
           /\ j.h # "none"
           /\ \E beh \in Behaviours(j.h, j.arg) :
                LET o == RunHandler(Popped, j.h, j.arg, beh)
                IN  /\ AfterJob(IF o.out = "throw"
                                THEN Settle(o.H, j.dst, "rejected", o.val)
                                ELSE Resolve(o.H, j.dst, o.val))
                    /\ log' = IF o.called
                              THEN Append(log, [cb |-> j.cb, arg |-> o.arg,
                                                out |-> o.ret.out, val |-> o.ret.val])
                              ELSE log

\* NewPromiseResolveThenableJob: then() is called on the adopted promise with
\* the resolving functions of the adopting one.
RunThenableJob ==
    /\ phase = "drain" /\ jobs # <<>>
    /\ LET j == Head(jobs)
       IN  /\ j.type = "thenable"
           /\ AfterJob(AddReaction(Popped, RefId(j.arg),
                                   [onF |-> "none", onR |-> "none", cb |-> 0,
                                    dst |-> j.dst]))
    /\ UNCHANGED log

\* No chain of synchronous Result operations is under way.
RIdle ==
    /\ rstart = <<>>
    /\ res = <<>>
    /\ rops = <<>>
    /\ rlog = <<>>
    /\ rthrown = <<>>

\* No static constructor has been called.
NotMade == [ctor |-> "none", arg |-> <<>>, out |-> "none", val |-> <<>>]

SIdle ==
    /\ made = NotMade
    /\ cur = <<>>
    /\ hist = <<>>
    /\ calls = <<>>

Init ==
    /\ promises = <<>>
    /\ reactions = <<>>
    /\ jobs = <<>>
    /\ phase = "script"
    /\ chain = <<>>
    /\ input = NoInput
    /\ log = <<>>
    /\ RIdle
    /\ SIdle

Next ==
    \/ Wrap
    \/ SettleInput
    \/ SettleBound
    \/ Map
    \/ MapError
    \/ Bind
    \/ BindError
    \/ Iter
    \/ IterError
    \/ Yield
    \/ RunPassThrough
    \/ RunHandlerJob
    \/ RunThenableJob

Spec == Init /\ [][Next]_vars

----------------------------------------------------------------------------
\* Result.ofPromise called directly, with a promise or with a niladic
\* function that returns one.

\* What the argument is: a promise still pending (it settles later, see
\* SettleInput), a promise already settled, or, for a function only, a
\* function that throws before it returns a promise.
Computations ==
    {[how |-> "pending", st |-> "pending", val |-> <<>>]}
    \cup {[how |-> "settled", st |-> c.st, val |-> c.val] : c \in Settlements}
    \cup {[how |-> "throw", st |-> "pending", val |-> <<"t">>]}

\* typeof promise === "function" ? promise() : promise
Computation(H, c) ==
    IF c.how = "throw"
    THEN [H |-> H, out |-> "throw", val |-> c.val]
    ELSE LET H1 == NewPromise(H, c.st, c.val, "input")
         IN  [H |-> H1, out |-> "return", val |-> PromiseRef(LastId(H1))]

\* const p = Result.ofPromise(promise)
OfPromise ==
    /\ phase = "script"
    /\ chain = <<>>
    /\ made = NotMade
    /\ \E form \in {"promise", "function"}, c \in Computations :
        /\ c.how = "throw" => form = "function"
        /\ LET k == Computation(Heap, c)
           IN  IF k.out = "throw"
               THEN /\ Install(k.H)
                    /\ made' = [ctor |-> "Result.ofPromise", arg |-> <<form, c.how>>,
                                out |-> "throw", val |-> k.val]
                    /\ input' = input
               ELSE LET w == Result_ofPromise(k.H, RefId(k.val))
                    IN  /\ Install(w.H)
                        /\ made' = [ctor |-> "Result.ofPromise", arg |-> <<form, c.how>>,
                                    out |-> "return", val |-> PromiseRef(w.p)]
                        /\ input' = [shape |-> "promise", val |-> c.val,
                                     p |-> RefId(k.val), st |-> c.st]
        /\ calls' = IF form = "function"
                    THEN Append(calls, [op |-> 0, arg |-> <<>>,
                                        out |-> IF c.how = "throw" THEN "throw" ELSE "return",
                                        val |-> IF c.how = "throw" THEN c.val ELSE <<>>])
                    ELSE calls
    /\ UNCHANGED <<phase, chain, log, cur, hist, rvars>>

OfPromiseNext ==
    \/ OfPromise
    \/ SettleInput
    \/ Yield
    \/ RunPassThrough
    \/ RunHandlerJob

SpecOfPromise == Init /\ [][OfPromiseNext]_vars

----------------------------------------------------------------------------
\* Synchronous chains: Result.ofValue(v) or Result.ofError(e), then
\* operations applied to the Result returned last.  A callback that throws
\* ends the chain: Result catches nothing, the exception reaches the caller.

ResultPayloads == {<<"x">>, <<"e">>, ofValue(<<"x">>), ofError(<<"e">>)}

AIdle ==
    /\ promises = <<>>
    /\ reactions = <<>>
    /\ jobs = <<>>
    /\ phase = "script"
    /\ chain = <<>>
    /\ input = NoInput
    /\ log = <<>>

RInit ==
    /\ AIdle
    /\ SIdle
    /\ rstart \in {ofValue(v) : v \in ResultPayloads} \cup {ofError(e) : e \in ResultPayloads}
    /\ res = rstart
    /\ rops = <<>>
    /\ rlog = <<>>
    /\ rthrown = <<>>

RCanStep == rthrown = <<>> /\ Len(rops) < MaxOps + 1

\* Operation kind took res to outcome o.
RStep(kind, o) ==
    /\ rops' = Append(rops, kind)
    /\ rlog' = IF o.called
               THEN Append(rlog, [op |-> Len(rops) + 1, arg |-> o.arg,
                                  out |-> o.ret.out, val |-> o.ret.val])
               ELSE rlog
    /\ res' = IF o.out = "throw" THEN res ELSE o.val
    /\ rthrown' = IF o.out = "throw" THEN o.val ELSE <<>>
    /\ UNCHANGED <<rstart, avars, svars>>

RMap == RCanStep /\ \E beh \in FnBehaviours : RStep("map", Result_map(res, beh))

RMapError == RCanStep /\ \E beh \in FnBehaviours : RStep("mapError", Result_mapError(res, beh))

RBind == RCanStep /\ \E beh \in FnBehaviours : RStep("bind", Result_bind(res, beh))

RIter == RCanStep /\ \E beh \in HookBehaviours : RStep("iter", Result_iter(res, beh))

RIterError ==
    RCanStep /\ \E beh \in HookBehaviours : RStep("iterError", Result_iterError(res, beh))

RNext ==
    \/ RMap
    \/ RMapError
    \/ RBind
    \/ RIter
    \/ RIterError

SpecResult == RInit /\ [][RNext]_vars

----------------------------------------------------------------------------
\* Constructors and accessors: a caller builds a wrapper with a static
\* constructor, then calls methods on the wrapper it holds.  A method that
\* throws ends the run: the exception reaches the caller.

\* What a caller can hand to a constructor: a string, the falsy primitives,
\* the absent values, an Error object, a plain object, a Result.
SyncPayloads ==
    {<<"x">>, Zero, False, EmptyString, Null, Undefined, NewError("Test error"),
     PlainObject, ofError(<<"e">>)}

SInit ==
    /\ AIdle
    /\ RIdle
    /\ SIdle

\* Constructor ctor was called with arg; outcome o, a callback invocation
\* being entered in calls as made by operation 0.
Construct(ctor, arg, o) ==
    /\ made = NotMade
    /\ made' = [ctor |-> ctor, arg |-> arg, out |-> o.out, val |-> o.val]
    /\ cur' = IF o.out = "return" THEN o.val ELSE <<>>
    /\ calls' = IF o.called
                THEN Append(calls, [op |-> 0, arg |-> o.arg, out |-> o.ret.out,
                                    val |-> o.ret.val])
                ELSE calls
    /\ UNCHANGED <<hist, avars, rvars>>

\* const r = Result.ofValue(v)
ResultOfValue == \E v \in SyncPayloads : Construct("Result.ofValue", v, NotCalled(ofValue(v)))

\* const r = Result.ofError(e)
ResultOfError == \E e \in SyncPayloads : Construct("Result.ofError", e, NotCalled(ofError(e)))

\* const r = Result.ofFunction(computation)
ResultOfFunction ==
    \E beh \in ComputationBehaviours :
        Construct("Result.ofFunction", <<beh>>, Result_ofFunction(beh))

CanCall ==
    /\ cur # <<>>
    /\ Len(hist) < MaxCalls
    /\ IF hist = <<>> THEN TRUE ELSE hist[Len(hist)].out = "return"

\* Method m was called on cur with arg; outcome o; the caller goes on with
\* the wrapper next.
Call(m, arg, o, next) ==
    /\ hist' = Append(hist, [m |-> m, recv |-> cur, arg |-> arg, out |-> o.out,
                             val |-> o.val])
    /\ calls' = IF o.called
                THEN Append(calls, [op |-> Len(hist) + 1, arg |-> o.arg,
                                    out |-> o.ret.out, val |-> o.ret.val])
                ELSE calls
    /\ cur' = next
    /\ UNCHANGED <<made, avars, rvars>>

\* r.getValue()
GetValue == CanCall /\ IsResult(cur) /\ Call("getValue", <<>>, Result_getValue(cur), cur)

\* r.getError()
GetError == CanCall /\ IsResult(cur) /\ Call("getError", <<>>, Result_getError(cur), cur)

\* r.isOk()
IsOk == CanCall /\ IsResult(cur) /\ Call("isOk", <<>>, NotCalled(Bool(isOk(cur))), cur)

\* r.isError()
IsError ==
    CanCall /\ IsResult(cur) /\ Call("isError", <<>>, NotCalled(Bool(isError(cur))), cur)

\* const o = Option.ofSome(v)
OptionOfSome == \E v \in SyncPayloads : Construct("Option.ofSome", v, Option_ofSome(v))

\* const o = Option.ofNone()
OptionOfNone == Construct("Option.ofNone", <<>>, NotCalled(Option_ofNone))

\* o.get()
OptionGet == CanCall /\ IsOption(cur) /\ Call("get", <<>>, Option_get(cur), cur)

\* o.isSome()
OptionIsSome ==
    CanCall /\ IsOption(cur) /\ Call("isSome", <<>>, NotCalled(Bool(Option_isSome(cur))), cur)

\* o.isNone()
OptionIsNone ==
    CanCall /\ IsOption(cur) /\ Call("isNone", <<>>, NotCalled(Bool(Option_isNone(cur))), cur)

\* The caller goes on with the wrapper a method returned, when it returned.
Returned_or(o, w) == IF o.out = "return" THEN o.val ELSE w

\* o.map(mapper)
OptionMap ==
    /\ CanCall
    /\ IsOption(cur)
    /\ \E beh \in OptionMapperBehaviours :
        LET o == Option_map(cur, beh) IN Call("map", <<>>, o, Returned_or(o, cur))

\* o.bind(mapper)
OptionBind ==
    /\ CanCall
    /\ IsOption(cur)
    /\ \E beh \in OptionBinderBehaviours :
        LET o == Option_bind(cur, beh) IN Call("bind", <<>>, o, Returned_or(o, cur))

\* o.defaultValue(d)
OptionDefaultValue ==
    /\ CanCall
    /\ IsOption(cur)
    /\ \E d \in DefaultChoices : Call("defaultValue", d, Option_defaultValue(cur, d), cur)

\* o.defaultWith(fn)
OptionDefaultWith ==
    /\ CanCall
    /\ IsOption(cur)
    /\ \E beh \in DefaultBehaviours :
        Call("defaultWith", <<>>, Option_defaultWith(cur, beh), cur)

\* o.iter(fn); the caller goes on with what iter returned.
OptionIter ==
    /\ CanCall
    /\ IsOption(cur)
    /\ \E beh \in HookBehaviours :
        LET o == Option_iter(cur, beh) IN Call("iter", <<>>, o, Returned_or(o, cur))

\* A method called on what a void method returned: x.map(f) with x undefined
\* throws before any method of the library runs.
CallOnUndefined ==
    /\ CanCall
    /\ cur = Undefined
    /\ Call("undefined.map", <<>>,
            Failed(TypeError("Cannot read properties of undefined (reading 'map')")), cur)

\* The instance methods of Result that transform or unwrap, and what a
\* caller passes to each: a callback, given by its behaviour, or a default.
ResultMethods == {"map", "mapError", "bind", "iter", "iterError", "defaultValue"}

ResultArgs(m) ==
    CASE m \in {"map", "mapError", "bind"} -> {<<beh>> : beh \in FnBehaviours}
      [] m \in {"iter", "iterError"}       -> {<<beh>> : beh \in HookBehaviours}
      [] OTHER                             -> DefaultChoices

\* r.m(a)
Result_call(m, r, a) ==
    CASE m = "map"       -> Result_map(r, a[1])
      [] m = "mapError"  -> Result_mapError(r, a[1])
      [] m = "bind"      -> Result_bind(r, a[1])
      [] m = "iter"      -> Result_iter(r, a[1])
      [] m = "iterError" -> Result_iterError(r, a[1])
      [] OTHER           -> NotCalled(Result_defaultValue(r, a))

\* The static members of Result that return a curried function.
ResultStatics == {"map", "mapError", "bind", "iter", "iterError"}

\* Result.m(a)(r): the static member returns r => r.m(a); a name the class
\* does not define is undefined, and calling it throws.
Result_curried(m, a, r) ==
    IF m \in ResultStatics
    THEN Result_call(m, r, a)
    ELSE Failed(TypeError("Result." \o m \o " is not a function"))

\* const curried = Result.m(a); curried(r), the caller keeping r
ResultCurried ==
    /\ CanCall
    /\ IsResult(cur)
    /\ \E m \in ResultMethods :
        \E a \in ResultArgs(m) :
            LET o == Result_curried(m, a, cur)
            IN  Call("Result." \o m, a, o, cur)

\* The instance methods of Option that transform or unwrap.
OptionMethods == {"map", "bind", "iter", "defaultValue", "defaultWith"}

OptionArgs(m) ==
    CASE m = "map"          -> {<<beh>> : beh \in OptionMapperBehaviours}
      [] m = "bind"         -> {<<beh>> : beh \in OptionBinderBehaviours}
      [] m = "iter"         -> {<<beh>> : beh \in HookBehaviours}
      [] m = "defaultWith"  -> {<<beh>> : beh \in DefaultBehaviours}
      [] OTHER              -> DefaultChoices

\* o.m(a)
Option_call(m, o, a) ==
    CASE m = "map"         -> Option_map(o, a[1])
      [] m = "bind"        -> Option_bind(o, a[1])
      [] m = "iter"        -> Option_iter(o, a[1])
      [] m = "defaultWith" -> Option_defaultWith(o, a[1])
      [] OTHER             -> Option_defaultValue(o, a)

\* The static members of Option that return a curried function.
OptionStatics == {"map", "bind", "iter", "defaultValue", "defaultWith"}

\* Option.m(a)(o): the static member returns option => option.m(a).
Option_curried(m, a, o) ==
    IF m \in OptionStatics
    THEN Option_call(m, o, a)
    ELSE Failed(TypeError("Option." \o m \o " is not a function"))

\* const curried = Option.m(a); curried(o), the caller keeping o
OptionCurried ==
    /\ CanCall
    /\ IsOption(cur)
    /\ \E m \in OptionMethods :
        \E a \in OptionArgs(m) :
            LET o == Option_curried(m, a, cur)
            IN  Call("Option." \o m, a, o, cur)

SNext ==
    \/ ResultOfValue
    \/ ResultOfError
    \/ ResultOfFunction
    \/ GetValue
    \/ GetError
    \/ IsOk
    \/ IsError
    \/ OptionOfSome
    \/ OptionOfNone
    \/ OptionGet
    \/ OptionIsSome
    \/ OptionIsNone
    \/ OptionMap
    \/ OptionBind
    \/ OptionDefaultValue
    \/ OptionDefaultWith
    \/ OptionIter
    \/ CallOnUndefined
    \/ ResultCurried
    \/ OptionCurried

SpecSync == SInit /\ [][SNext]_vars

----------------------------------------------------------------------------
\* The chain under the scheduling the runtime and the claim's provisos give:
\* synchronous code runs to completion and yields, the runtime runs every
\* microtask queued, the promise handed to wrap settles, and so does every
\* promise wrapped by a function given to bind or bindError.
Fairness ==
    /\ WF_vars(Yield \/ RunPassThrough \/ RunHandlerJob \/ RunThenableJob)
    /\ WF_vars(SettleInput \/ SettleBound)

SpecFair == Init /\ [][Next]_vars /\ Fairness

----------------------------------------------------------------------------
\* Branching: the script keeps every AsyncResult it got and chains the next
\* operation on any of them, before or after the wrapped promise settles.

\* The operation appended is applied to the AsyncResult stage r returned.
ChainedOn(r, kind, w, hook) ==
    /\ Install(w.H)
    /\ chain' = Append(chain, Stage(kind, chain[r].p, w, hook))
    /\ UNCHANGED <<phase, input, log, rvars, svars>>

BranchMap ==
    /\ CanChain
    /\ \E r \in 1..Len(chain) :
        ChainedOn(r, "map", AsyncResult_map(Heap, chain[r].p, Len(chain) + 1), 0)

BranchMapError ==
    /\ CanChain
    /\ \E r \in 1..Len(chain) :
        ChainedOn(r, "mapError", AsyncResult_mapError(Heap, chain[r].p, Len(chain) + 1), 0)

BranchBind ==
    /\ CanChain
    /\ \E r \in 1..Len(chain) :
        ChainedOn(r, "bind", AsyncResult_bind(Heap, chain[r].p, Len(chain) + 1), 0)

BranchBindError ==
    /\ CanChain
    /\ \E r \in 1..Len(chain) :
        ChainedOn(r, "bindError", AsyncResult_bindError(Heap, chain[r].p, Len(chain) + 1), 0)

BranchIter ==
    /\ CanChain
    /\ \E r \in 1..Len(chain) :
        LET w == AsyncResult_iter(Heap, chain[r].p, Len(chain) + 1)
        IN  ChainedOn(r, "iter", w, LastId(w.H))

BranchIterError ==
    /\ CanChain
    /\ \E r \in 1..Len(chain) :
        LET w == AsyncResult_iterError(Heap, chain[r].p, Len(chain) + 1)
        IN  ChainedOn(r, "iterError", w, LastId(w.H))

BranchNext ==
    \/ Wrap
    \/ SettleInput
    \/ SettleBound
    \/ BranchMap
    \/ BranchMapError
    \/ BranchBind
    \/ BranchBindError
    \/ BranchIter
    \/ BranchIterError
    \/ Yield
    \/ RunPassThrough
    \/ RunHandlerJob
    \/ RunThenableJob

SpecBranch == Init /\ [][BranchNext]_vars

----------------------------------------------------------------------------
\* Async (src/src/async.ts).  An Async holds one promise; its operations take
\* a heap and return [H, p] as those of AsyncResult do.

IsAsync(v) == Len(v) > 0 /\ v[1] = "Async"

AsyncOf(id) == <<"Async", ToString(id)>>

\* Async.ofPromise(promise)
Async_ofPromise(H, promise) == [H |-> H, p |-> promise]

\* Async.wrap(value): new Promise(res => res(value))
Async_wrap(H, value) ==
    LET H1 == NewPromise(H, "pending", <<>>, "Async.wrap")
    IN  Async_ofPromise(Resolve(H1, LastId(H1), value), LastId(H1))

\* a.map(mapper)
Async_map(H, recv, cb) ==
    LET H1 == Then(H, recv, "Async.mapper", "none", cb, "Async.map.then")
    IN  Async_ofPromise(H1, LastId(H1))

\* a.bind(mapper)
Async_bind(H, recv, cb) ==
    LET H1 == Then(H, recv, "Async.mapper", "none", cb, "Async.bind.then")
        H2 == Then(H1, LastId(H1), "Async.get", "none", 0, "Async.bind.get")
    IN  Async_ofPromise(H2, LastId(H2))

\* Mutant: written after map, iter returns an Async on the promise then()
\* derived.
Async_iter_Maps(H, recv, cb) ==
    LET H1 == Then(H, recv, "Async.fn", "none", cb, "Async.iter.then")
    IN  Async_ofPromise(H1, LastId(H1))

\* a.iter(fn): this.value.then(fn); return this
Async_iter(H, recv, cb) ==
    LET H1 == Then(H, recv, "Async.fn", "none", cb, "Async.iter.then")
    IN  [H |-> H1, p |-> recv]

\* Async.get: a => a.get()
Async_get(a) ==
    IF IsAsync(a) THEN NotCalled(PromiseRef(RefId(a)))
    ELSE Failed(TypeError("a.get is not a function"))

\* A function given to Async.map or Async.bind: returns a plain value, a
\* promise already fulfilled (an async function), a promise still pending, an
\* Async, or throws.
MapperBehaviours == {"plain", "promise", "pending", "async", "throw"}

CallMapper(H, beh, arg) ==
    CASE beh = "plain" -> [H |-> H, out |-> "return", val |-> <<"f">> \o arg]
      [] beh = "promise" ->
            LET H1 == PromiseResolve(H, <<"f">> \o arg, "mapper.promise")
            IN  [H |-> H1, out |-> "return", val |-> PromiseRef(LastId(H1))]
      [] beh = "pending" ->
            LET H1 == NewPromise(H, "pending", <<>>, "binder.pending")
            IN  [H |-> H1, out |-> "return", val |-> PromiseRef(LastId(H1))]
      [] beh = "async" ->
            LET w == Async_wrap(H, <<"f">> \o arg)
            IN  [H |-> w.H, out |-> "return", val |-> AsyncOf(w.p)]
      [] OTHER -> [H |-> H, out |-> "throw", val |-> <<"t">>]

\* The handlers Async passes to then(): the caller's mapper, the caller's
\* fn, and Async.get.
AsyncRunHandler(H, h, arg, beh) ==
    CASE h = "Async.mapper" ->
            LET c == CallMapper(H, beh, arg)
            IN  [H |-> c.H, out |-> c.out, val |-> c.val, called |-> TRUE,
                 arg |-> arg, ret |-> [out |-> c.out, val |-> c.val]]
      [] h = "Async.fn" ->
            LET c == CallFn(beh, arg) IN WithHeap(H, Called(c.out, c.val, arg, c))
      [] OTHER -> WithHeap(H, Async_get(arg))

AsyncBehaviours(h) ==
    CASE h = "Async.mapper" -> MapperBehaviours
      [] h = "Async.fn"     -> HookBehaviours
      [] OTHER              -> {"none"}

\* The program: a script makes an Async of a value or of a promise and chains
\* operations on the Async it got last.

AsyncInputs == {<<"x">>, Zero}

\* const a = Async.wrap(v)
AsyncWrap ==
    /\ phase = "script"
    /\ chain = <<>>
    /\ \E v \in AsyncInputs :
        LET w == Async_wrap(Heap, v)
        IN  /\ Install(w.H)
            /\ chain' = <<Stage("Async.wrap", 0, w, 0)>>
            /\ input' = [shape |-> "plain", val |-> v, p |-> 0, st |-> "fulfilled"]
    /\ UNCHANGED <<phase, log, rvars, svars>>

\* const a = Async.ofPromise(promise), the promise settling later
AsyncOfPromise ==
    /\ phase = "script"
    /\ chain = <<>>
    /\ LET H1 == NewPromise(Heap, "pending", <<>>, "input")
           w == Async_ofPromise(H1, LastId(H1))
       IN  /\ Install(w.H)
           /\ chain' = <<Stage("Async.ofPromise", 0, w, 0)>>
           /\ input' = [shape |-> "promise", val |-> <<>>, p |-> w.p, st |-> "pending"]
    /\ UNCHANGED <<phase, log, rvars, svars>>

AsyncMap ==
    CanChain /\ Chained("Async.map", Async_map(Heap, Receiver, Len(chain) + 1), 0)

AsyncBind ==
    CanChain /\ Chained("Async.bind", Async_bind(Heap, Receiver, Len(chain) + 1), 0)

AsyncIter ==
    /\ CanChain
    /\ LET w == Async_iter(Heap, Receiver, Len(chain) + 1)
       IN  Chained("Async.iter", w, LastId(w.H))

\* A reaction runs the handler Async registered and settles the derived
\* promise with what the handler returned or threw.
AsyncRunHandlerJob ==
    /\ phase = "drain" /\ jobs # <<>>
    /\ LET j == Head(jobs)
       IN  /\ j.type = "reaction"
           /\ j.h # "none"
           /\ \E beh \in AsyncBehaviours(j.h) :
                LET o == AsyncRunHandler(Popped, j.h, j.arg, beh)
                IN  /\ AfterJob(IF o.out = "throw"
                                THEN Settle(o.H, j.dst, "rejected", o.val)
                                ELSE Resolve(o.H, j.dst, o.val))
                    /\ log' = IF o.called
                              THEN Append(log, [cb |-> j.cb, arg |-> o.arg,
                                                out |-> o.ret.out, val |-> o.ret.val])
                              ELSE log

AsyncNext ==
    \/ AsyncWrap
    \/ AsyncOfPromise
    \/ SettleInput
    \/ SettleBound
    \/ AsyncMap
    \/ AsyncBind
    \/ AsyncIter
    \/ Yield
    \/ RunPassThrough
    \/ AsyncRunHandlerJob
    \/ RunThenableJob

SpecAsync == Init /\ [][AsyncNext]_vars

----------------------------------------------------------------------------
\* pipe (src/src/asyncresult.ts, after the AsyncResult class).  A pipe is the
\* object {chain, value} closed over val.

IsPipe(v) == Len(v) > 0 /\ v[1] = "Pipe"

\* pipe(val)
pipe(val) == <<"Pipe">> \o val

\* value: () => val
Pipe_value(p) == NotCalled(Tail(p))

\* Mutant: written after iter, the pipe returned holds the value chained on.
Pipe_chain_KeepsValue(p, beh) ==
    LET c == CallFn(beh, Tail(p))
    IN  IF c.out = "throw" THEN Called("throw", c.val, Tail(p), c)
        ELSE Called("return", pipe(Tail(p)), Tail(p), c)

\* chain: fn => pipe(fn(val))
Pipe_chain(p, beh) ==
    LET c == CallFn(beh, Tail(p))
    IN  IF c.out = "throw" THEN Called("throw", c.val, Tail(p), c)
        ELSE Called("return", pipe(c.val), Tail(p), c)

\* The functions given to chain: return a value computed from the argument,
\* a Result, nothing, or throw.
ChainBehaviours == {"plain", "result", "nothing", "throw"}

\* The pipes the caller holds: the one pipe() returned and those chain
\* returned.
Pipes == {w \in {made.val} \cup {hist[n].val : n \in 1..Len(hist)} : IsPipe(w)}

\* const p = pipe(v)
PipeOf ==
    /\ made = NotMade
    /\ \E v \in SyncPayloads :
        made' = [ctor |-> "pipe", arg |-> v, out |-> "return", val |-> pipe(v)]
    /\ UNCHANGED <<cur, hist, calls, avars, rvars>>

PipeCanCall ==
    /\ made.ctor = "pipe"
    /\ Len(hist) < MaxCalls
    /\ IF hist = <<>> THEN TRUE ELSE hist[Len(hist)].out = "return"

\* Method m was called on pipe p; outcome o.
PipeCall(m, p, o) ==
    /\ hist' = Append(hist, [m |-> m, recv |-> p, arg |-> <<>>, out |-> o.out,
                             val |-> o.val])
    /\ calls' = IF o.called
                THEN Append(calls, [op |-> Len(hist) + 1, arg |-> o.arg,
                                    out |-> o.ret.out, val |-> o.ret.val])
                ELSE calls
    /\ UNCHANGED <<made, cur, avars, rvars>>

\* p.chain(fn), on any pipe the caller holds
PipeChain ==
    /\ PipeCanCall
    /\ \E p \in Pipes :
        \E beh \in ChainBehaviours : PipeCall("chain", p, Pipe_chain(p, beh))

\* p.value(), on any pipe the caller holds
PipeValue ==
    /\ PipeCanCall
    /\ \E p \in Pipes : PipeCall("value", p, Pipe_value(p))

PipeNext ==
    \/ PipeOf
    \/ PipeChain
    \/ PipeValue

SpecPipe == SInit /\ [][PipeNext]_vars

----------------------------------------------------------------------------
\* Vocabulary of the properties

Stages == 1..Len(chain)

KindOf(i) == chain[i].kind

\* The promise get() returns for the AsyncResult stage i returned
Got(i) == promises[chain[i].p]

\* The promise of the AsyncResult stage i was applied to
Recv(i) == promises[chain[i].recv]

Fulfilled(pr) == pr.st = "fulfilled"

\* The invocations of the callback given to stage i
Calls(i) == {k \in 1..Len(log) : log[k].cb = i}

\* Nothing is left to run and nothing is left to settle.
Quiescent ==
    /\ chain # <<>>
    /\ phase = "script"
    /\ jobs = <<>>
    /\ input.st # "pending"
    /\ \A q \in 1..Len(promises) :
        promises[q].origin = "binder.pending" => promises[q].st # "pending"

\* C1: the promise get() returns, for the AsyncResult returned by wrap and by
\* every operation chained after it, is never rejected: it is pending or
\* fulfilled with a Result, whatever the callbacks returned or threw and
\* however the wrapped promise or a bound AsyncResult settled, and once nothing
\* is left to run it is fulfilled.
C1_NeverRejects ==
    \A i \in Stages :
        /\ Got(i).st # "rejected"
        /\ Fulfilled(Got(i)) => IsResult(Got(i).val)
        /\ Quiescent => Fulfilled(Got(i))

\* A callback given to bind returned an AsyncResult whose promise is rejected,
\* a later callback threw, and the last stage is fulfilled all the same.
C1_Witness ==
    /\ Quiescent
    /\ Len(chain) = MaxOps + 1
    /\ \E k \in 1..Len(log) :
        /\ KindOf(log[k].cb) \in {"bind", "bindError"}
        /\ log[k].out = "return"
        /\ promises[RefId(log[k].val)].st = "rejected"
    /\ \E k \in 1..Len(log) : log[k].out = "throw"
    /\ Fulfilled(Got(Len(chain)))

\* C2: AsyncResult.wrap resolves to Ok(v) for a plain value v, to r itself for
\* a Result r, to Ok(v) for a promise fulfilled with a plain value v, to r for
\* a promise fulfilled with a Result r, and to Error(E) for a promise rejected
\* with E.
C2_WrapNormalizes ==
    chain # <<>> =>
        /\ Got(1).st # "rejected"
        /\ Quiescent => Fulfilled(Got(1))
        /\ input.shape = "promise" /\ input.st = "pending" => Got(1).st = "pending"
        /\ Fulfilled(Got(1)) =>
            Got(1).val =
                CASE input.shape = "plain" -> ofValue(input.val)
                  [] input.shape = "result" -> input.val
                  [] input.st = "rejected" -> ofError(input.val)
                  [] IsResult(input.val) -> input.val
                  [] OTHER -> ofValue(input.val)

\* wrap of a promise that fulfilled with an Error Result resolved to it.
C2_Witness ==
    /\ chain # <<>>
    /\ input.shape = "promise"
    /\ input.st = "fulfilled"
    /\ input.val = ofError(<<"e">>)
    /\ Fulfilled(Got(1))
    /\ Got(1).val = ofError(<<"e">>)

\* C3: when the callback of map or bind (on Ok) or of mapError or bindError
\* (on Error) throws t, the AsyncResult the operation returned resolves to
\* Error(t): never rejected, never another payload.
C3_ThrowBecomesError ==
    \A i \in Stages :
        KindOf(i) \in {"map", "mapError", "bind", "bindError"} =>
            \A k \in Calls(i) :
                log[k].out = "throw" =>
                    /\ Got(i).st # "rejected"
                    /\ Fulfilled(Got(i)) => Got(i).val = ofError(log[k].val)
                    /\ Quiescent => Fulfilled(Got(i))

\* The callback of mapError threw on an Error whose payload is not what it
\* threw, and the stage resolved to Error of the thrown value.
C3_Witness ==
    \E i \in Stages :
        /\ KindOf(i) = "mapError"
        /\ Fulfilled(Recv(i))
        /\ Recv(i).val = ofError(<<"e">>)
        /\ \E k \in Calls(i) : log[k].out = "throw" /\ log[k].val = <<"t">>
        /\ Fulfilled(Got(i))
        /\ Got(i).val = ofError(<<"t">>)

\* C4: bind on a receiver resolved to Ok(v) invokes fn once, with v, and
\* resolves to the Result the AsyncResult fn returned resolves to; on a
\* receiver resolved to Error(E) it never invokes fn and resolves to Error(E).
C4_Bind ==
    \A i \in Stages :
        KindOf(i) = "bind" =>
            /\ Cardinality(Calls(i)) <= 1
            /\ Calls(i) # {} => Fulfilled(Recv(i)) /\ isOk(Recv(i).val)
            /\ \A k \in Calls(i) :
                /\ log[k].arg = Payload(Underlying(Recv(i).val))
                /\ log[k].out = "return" =>
                    LET a == promises[RefId(log[k].val)]
                    IN  /\ Fulfilled(Got(i)) => a.st # "pending"
                        /\ Fulfilled(Got(i)) /\ Fulfilled(a) => Got(i).val = a.val
                        /\ Quiescent /\ Fulfilled(a) => Fulfilled(Got(i))
            /\ Fulfilled(Got(i)) /\ isOk(Recv(i).val) => Calls(i) # {}
            /\ Fulfilled(Got(i)) /\ isError(Recv(i).val) => Got(i).val = Recv(i).val
            /\ Quiescent => Fulfilled(Got(i))

\* fn was invoked on Ok(x), returned an AsyncResult that resolved to an Error,
\* and bind resolved to that Error.
C4_Witness ==
    \E i \in Stages :
        /\ KindOf(i) = "bind"
        /\ Recv(i).val = ofValue(<<"x">>)
        /\ \E k \in Calls(i) :
            /\ log[k].out = "return"
            /\ Fulfilled(promises[RefId(log[k].val)])
            /\ promises[RefId(log[k].val)].val = ofError(<<"e2">>)
        /\ Fulfilled(Got(i))
        /\ Got(i).val = ofError(<<"e2">>)

\* C5: mapError with a fn that does not throw: on a receiver resolved to
\* Error(E), fn is invoked once, with E, and the result resolves to Ok(fn(E));
\* on a receiver resolved to Ok(v), fn is not invoked and the result resolves
\* to Ok(v).
C5_MapError ==
    \A i \in Stages :
        KindOf(i) = "mapError" =>
            /\ Cardinality(Calls(i)) <= 1
            /\ Calls(i) # {} => Fulfilled(Recv(i)) /\ isError(Recv(i).val)
            /\ \A k \in Calls(i) :
                /\ log[k].arg = Payload(Underlying(Recv(i).val))
                /\ log[k].out = "return" /\ Fulfilled(Got(i)) =>
                        Got(i).val = ofValue(log[k].val)
            /\ Fulfilled(Got(i)) /\ isError(Recv(i).val) => Calls(i) # {}
            /\ Fulfilled(Got(i)) /\ isOk(Recv(i).val) => Got(i).val = Recv(i).val
            /\ Quiescent => Fulfilled(Got(i))

\* fn was invoked on Error(e), returned a Result, and mapError resolved to Ok
\* of that Result.
C5_Witness ==
    \E i \in Stages :
        /\ KindOf(i) = "mapError"
        /\ Recv(i).val = ofError(<<"e">>)
        /\ \E k \in Calls(i) :
            /\ log[k].arg = <<"e">>
            /\ log[k].out = "return"
            /\ log[k].val = ofError(<<"r">>)
        /\ Fulfilled(Got(i))
        /\ Got(i).val = ofValue(ofError(<<"r">>))

\* C6: bindError on a receiver resolved to Error(E) invokes fn once, with E,
\* and resolves to the Result the AsyncResult fn returned resolves to; on a
\* receiver resolved to Ok(v), for every value v, it never invokes fn and
\* resolves to Ok(v), the same value v.
C6_BindError ==
    \A i \in Stages :
        KindOf(i) = "bindError" =>
            /\ Cardinality(Calls(i)) <= 1
            /\ Calls(i) # {} => Fulfilled(Recv(i)) /\ isError(Recv(i).val)
            /\ \A k \in Calls(i) :
                /\ log[k].arg = Payload(Underlying(Recv(i).val))
                /\ log[k].out = "return" =>
                    LET a == promises[RefId(log[k].val)]
                    IN  /\ Fulfilled(Got(i)) => a.st # "pending"
                        /\ Fulfilled(Got(i)) /\ Fulfilled(a) => Got(i).val = a.val
            /\ Fulfilled(Got(i)) /\ isError(Recv(i).val) => Calls(i) # {}
            /\ Fulfilled(Got(i)) /\ isOk(Recv(i).val) => Got(i).val = Recv(i).val

\* C7: iter and iterError return an AsyncResult that resolves to the Result
\* the receiver resolves to, whether the hook returned a value, returned
\* nothing or threw; iter invokes the hook only on Ok and iterError only on
\* Error, with the payload, and once.
C7_IterKeepsResult ==
    \A i \in Stages :
        KindOf(i) \in {"iter", "iterError"} =>
            /\ Got(i).st = Recv(i).st
            /\ Got(i).val = Recv(i).val
            /\ Cardinality(Calls(i)) <= 1
            /\ \A k \in Calls(i) :
                /\ Fulfilled(Recv(i))
                /\ KindOf(i) = "iter" => isOk(Recv(i).val)
                /\ KindOf(i) = "iterError" => isError(Recv(i).val)
                /\ log[k].arg = Payload(Underlying(Recv(i).val))
            /\ Quiescent /\ Calls(i) = {} =>
                IF KindOf(i) = "iter" THEN isError(Recv(i).val) ELSE isOk(Recv(i).val)

\* The hook given to iter threw on Ok(x) and the AsyncResult iter returned
\* resolved to Ok(x).
C7_Witness ==
    \E i \in Stages :
        /\ KindOf(i) = "iter"
        /\ \E k \in Calls(i) : log[k].out = "throw"
        /\ Quiescent
        /\ Fulfilled(Got(i))
        /\ Got(i).val = ofValue(<<"x">>)

\* C8: an exception thrown by a hook given to iter or iterError is swallowed:
\* no promise created by iter or iterError is rejected with no rejection
\* handler attached to it.
C8_HookThrowSwallowed ==
    \A q \in 1..Len(promises) :
        promises[q].origin \in {"iter.then", "iterError.then"} =>
            ~(promises[q].st = "rejected" /\ ~promises[q].handled)

Applicable(i) ==
    \/ KindOf(i) \in {"map", "bind", "iter"} /\ isOk(Recv(i).val)
    \/ KindOf(i) \in {"mapError", "bindError", "iterError"} /\ isError(Recv(i).val)

C10_ShortCircuit ==
    (isError(rstart) /\ \A n \in 1..Len(rops) : rops[n] \in {"map", "bind", "iter"}) =>
        /\ rlog = <<>>
        /\ rthrown = <<>>
        /\ isError(res)
        /\ Payload(Underlying(res)) = Payload(Underlying(rstart))
        /\ \A D \in ResultPayloads : Result_defaultValue(res, D) = D

\* Result.ofError(e).map(f1).bind(f2). ... , as long as the bound allows
C10_Witness ==
    /\ rstart = ofError(<<"e">>)
    /\ Len(rops) = MaxOps + 1
    /\ rops[1] = "map"
    /\ rops[2] = "bind"
    /\ \A n \in 1..Len(rops) : rops[n] \in {"map", "bind", "iter"}
    /\ res = ofError(<<"e">>)

\* The step applies operation kind to res.
RApplied(kind) == Len(rops') = Len(rops) + 1 /\ rops'[Len(rops')] = kind

\* C11: Result.mapError(fn) on Error(E) invokes fn once, with E, and when fn
\* returns the result is Ok with value fn(E); on Ok(v) it does not invoke fn
\* and the result is Ok with value v.
C11_ResultMapError ==
    [][RApplied("mapError") =>
        IF isError(res)
        THEN /\ Len(rlog') = Len(rlog) + 1
             /\ LET c == rlog'[Len(rlog')]
                IN  /\ c.arg = Payload(Underlying(res))
                    /\ c.out = "return" =>
                        /\ rthrown' = <<>>
                        /\ isOk(res')
                        /\ Payload(Underlying(res')) = c.val
        ELSE /\ rlog' = rlog
             /\ rthrown' = <<>>
             /\ isOk(res')
             /\ Payload(Underlying(res')) = Payload(Underlying(res))]_vars

\* Result.ofError(e).mapError(fn) with fn returning a value computed from e
C11_Witness ==
    /\ rstart = ofError(<<"e">>)
    /\ rops = <<"mapError">>
    /\ Len(rlog) = 1
    /\ rlog[1].arg = <<"e">>
    /\ rlog[1].out = "return"
    /\ rlog[1].val = <<"f", "e">>
    /\ res = ofValue(<<"f", "e">>)

\* The method calls made so far
Made == 1..Len(hist)

\* C12: getValue() on an Error Result and getError() on an Ok Result both
\* throw, and what is thrown carries the payload the Result holds (the error
\* payload for getValue, the Ok value for getError) as its originalError.
C12_MismatchCarriesPayload ==
    \A n \in Made :
        LET h == hist[n]
        IN  \/ h.m = "getValue" /\ isError(h.recv)
            \/ h.m = "getError" /\ isOk(h.recv)
            => /\ h.out = "throw"
               /\ originalError(h.val) = Payload(Underlying(h.recv))

\* Result.ofPromise was called, nothing is left to run and nothing to settle.
OfPromiseDone ==
    /\ made.ctor = "Result.ofPromise"
    /\ phase = "script"
    /\ jobs = <<>>
    /\ input.st # "pending"

\* C13: Result.ofPromise, given a promise or a niladic function, never throws
\* and returns a promise that never rejects: it resolves to Ok(x) when the
\* computation fulfils with x and to Error(E) when it rejects with E or when
\* the function throws E.
C13_OfPromise ==
    made.ctor = "Result.ofPromise" =>
        /\ made.out = "return"
        /\ IF made.out = "return"
           THEN LET p == promises[RefId(made.val)]
                IN  /\ p.st # "rejected"
                    /\ OfPromiseDone => Fulfilled(p)
                    /\ Fulfilled(p) =>
                        p.val = IF input.st = "fulfilled" THEN ofValue(input.val)
                                ELSE ofError(input.val)
           ELSE FALSE

\* The invocations of the callback given to the constructor
ConstructorCalls == {k \in 1..Len(calls) : calls[k].op = 0}

\* C14: Result.ofFunction(fn) runs fn exactly once and never throws: when fn
\* returned x the Result is Ok and getValue() returns x, when fn threw E the
\* Result is Error and getError() returns E.
C14_OfFunction ==
    made.ctor = "Result.ofFunction" =>
        /\ made.out = "return"
        /\ Cardinality(ConstructorCalls) = 1
        /\ \A k \in ConstructorCalls :
            /\ calls[k].out = "return" =>
                /\ isOk(made.val)
                /\ \A n \in Made :
                    hist[n].m = "getValue" =>
                        hist[n].out = "return" /\ hist[n].val = calls[k].val
            /\ calls[k].out = "throw" =>
                /\ isError(made.val)
                /\ \A n \in Made :
                    hist[n].m = "getError" =>
                        hist[n].out = "return" /\ hist[n].val = calls[k].val

\* Result.ofFunction(() => { throw t }).getError() returned t.
C14_Witness ==
    /\ made.ctor = "Result.ofFunction"
    /\ Len(calls) = 1
    /\ calls[1].out = "throw"
    /\ calls[1].val = <<"t">>
    /\ \E n \in Made :
        hist[n].m = "getError" /\ hist[n].out = "return" /\ hist[n].val = <<"t">>

RCalledBack ==
    /\ Len(rlog') = Len(rlog) + 1
    /\ rlog'[Len(rlog')].arg = Payload(Underlying(res))

\* C16: Result.iter(fn) invokes fn, with the value, exactly when the Result is
\* Ok, Result.iterError(fn) invokes fn, with the payload, exactly when it is
\* Error, and both return the Result they were called on, whatever fn
\* returned, so that the chain goes on from it.
C16_ResultIter ==
    [][/\ RApplied("iter") =>
            /\ IF isOk(res) THEN RCalledBack ELSE rlog' = rlog
            /\ rthrown' = <<>> => res' = res
            /\ rlog' = rlog => rthrown' = <<>>
            /\ isOk(res) /\ rlog'[Len(rlog')].out = "return" => rthrown' = <<>>
       /\ RApplied("iterError") =>
            /\ IF isError(res) THEN RCalledBack ELSE rlog' = rlog
            /\ rthrown' = <<>> => res' = res
            /\ rlog' = rlog => rthrown' = <<>>
            /\ isError(res) /\ rlog'[Len(rlog')].out = "return" => rthrown' = <<>>]_vars

\* Result.ofValue(x).iter(hook).map(f): the hook returned a value, and map's
\* callback received x all the same.
C16_Witness ==
    /\ rstart = ofValue(<<"x">>)
    /\ rops = <<"iter", "map">>
    /\ Len(rlog) = 2
    /\ rlog[1].arg = <<"x">> /\ rlog[1].out = "return" /\ rlog[1].val = <<"h">>
    /\ rlog[2].arg = <<"x">> /\ rlog[2].out = "return"
    /\ res = ofValue(<<"f", "x">>)

\* The promise then() derived for the hook of stage i (iter and iterError)
HookPromise(i) == promises[chain[i].hook]

\* C17: an exception the hook throws is not caught by Result.iter or
\* Result.iterError: it leaves them for their caller.  Called by
\* AsyncResult.iter/iterError from a reaction, they hand it to the runtime,
\* which rejects the promise derived for the hook; the caller of
\* AsyncResult.iter/iterError got the AsyncResult back, and that one
\* resolves to the Result it had.
C17_HookAsymmetry ==
    \A i \in Stages :
        KindOf(i) \in {"iter", "iterError"} =>
            \A k \in Calls(i) :
                log[k].out = "throw" =>
                    /\ HookPromise(i).st = "rejected"
                    /\ HookPromise(i).val = log[k].val
                    /\ Fulfilled(Got(i))
                    /\ IsResult(Got(i).val)
                    /\ Payload(Underlying(Got(i).val)) = log[k].arg

\* The hook given to iterError threw t on Error(e): the derived promise is
\* rejected with t and the AsyncResult resolved to Error(e).
C17_Witness ==
    \E i \in Stages :
        /\ KindOf(i) = "iterError"
        /\ \E k \in Calls(i) : log[k].out = "throw" /\ log[k].val = <<"t">>
        /\ HookPromise(i).st = "rejected"
        /\ HookPromise(i).val = <<"t">>
        /\ Quiescent
        /\ Got(i).val = ofError(<<"e">>)

\* The invocations of the callback given to method call n
CallsOf(n) == {k \in 1..Len(calls) : calls[k].op = n}

\* C18: for every v that is neither null nor undefined, falsy or not,
\* Option.ofSome(v) returns an Option whose isSome() is true and whose get()
\* returns v; get() on Option.ofNone() throws the empty-access error.
C18_OptionGet ==
    /\ made.ctor = "Option.ofSome" /\ made.arg \notin {Null, Undefined} =>
        /\ made.out = "return"
        /\ \A n \in Made :
            hist[n].recv = made.val =>
                /\ hist[n].m = "isSome" => hist[n].val = True
                /\ hist[n].m = "isNone" => hist[n].val = False
                /\ hist[n].m = "get" => hist[n].out = "return" /\ hist[n].val = made.arg
    /\ made.ctor = "Option.ofNone" =>
        /\ made.out = "return"
        /\ \A n \in Made :
            hist[n].recv = made.val /\ hist[n].m = "get" =>
                hist[n].out = "throw" /\ hist[n].val = EmptyValueAccess

\* Option.ofSome(0): isSome() returned true and get() returned 0.
C18_Witness ==
    /\ made.ctor = "Option.ofSome"
    /\ made.arg = Zero
    /\ Len(hist) = 2
    /\ hist[1].m = "isSome" /\ hist[1].val = True
    /\ hist[2].m = "get" /\ hist[2].out = "return" /\ hist[2].val = Zero

\* C19: map on a Some invokes fn once, with the value, and when fn returns a
\* value that is neither null nor undefined the result is a Some whose get()
\* returns that value; map on a None does not invoke fn and returns a None.
C19_OptionMap ==
    \A n \in Made :
        hist[n].m = "map" =>
            IF Option_isSome(hist[n].recv)
            THEN /\ Cardinality(CallsOf(n)) = 1
                 /\ \A k \in CallsOf(n) :
                    /\ calls[k].arg = OptionValue(hist[n].recv)
                    /\ calls[k].out = "return" /\ calls[k].val \notin {Null, Undefined} =>
                        /\ hist[n].out = "return"
                        /\ IsOption(hist[n].val)
                        /\ Option_isSome(hist[n].val)
                        /\ \A n2 \in Made :
                            n2 = n + 1 /\ hist[n2].m = "get" =>
                                hist[n2].out = "return" /\ hist[n2].val = calls[k].val
            ELSE /\ CallsOf(n) = {}
                 /\ hist[n].out = "return"
                 /\ IsOption(hist[n].val)
                 /\ Option_isNone(hist[n].val)
                 /\ \A n2 \in Made :
                    n2 = n + 1 /\ hist[n2].m = "isNone" => hist[n2].val = True

\* Option.ofSome(x).map(f).get() returned what f returned for x.
C19_Witness ==
    /\ made.ctor = "Option.ofSome"
    /\ made.arg = <<"x">>
    /\ Len(hist) = 2
    /\ hist[1].m = "map"
    /\ Len(calls) = 1
    /\ calls[1].arg = <<"x">> /\ calls[1].out = "return" /\ calls[1].val = <<"f", "x">>
    /\ hist[2].m = "get" /\ hist[2].out = "return" /\ hist[2].val = <<"f", "x">>

\* C20: bind on a Some invokes fn once, with the value, and returns the very
\* Option fn returned, a Some or a None; bind on a None does not invoke fn and
\* returns a None.
C20_OptionBind ==
    \A n \in Made :
        hist[n].m = "bind" =>
            IF Option_isSome(hist[n].recv)
            THEN /\ Cardinality(CallsOf(n)) = 1
                 /\ \A k \in CallsOf(n) :
                    /\ calls[k].arg = OptionValue(hist[n].recv)
                    /\ calls[k].out = "return" =>
                        hist[n].out = "return" /\ hist[n].val = calls[k].val
            ELSE /\ CallsOf(n) = {}
                 /\ hist[n].out = "return"
                 /\ IsOption(hist[n].val)
                 /\ Option_isNone(hist[n].val)

\* Option.ofSome(x).bind(fn), fn returning Option.ofNone(): bind returned a
\* None, and isNone() on it returned true.
C20_Witness ==
    /\ made.ctor = "Option.ofSome"
    /\ Len(hist) = 2
    /\ hist[1].m = "bind"
    /\ Len(calls) = 1
    /\ calls[1].out = "return" /\ calls[1].val = Option_ofNone
    /\ hist[1].val = Option_ofNone
    /\ hist[2].m = "isNone" /\ hist[2].val = True

\* C21: defaultValue(d) returns the wrapped value on a Some and d on a None;
\* defaultWith(fn) returns the wrapped value on a Some without invoking fn,
\* and on a None invokes fn exactly once and returns what fn returned.
C21_OptionDefault ==
    \A n \in Made :
        /\ hist[n].m = "defaultValue" =>
            /\ hist[n].out = "return"
            /\ CallsOf(n) = {}
            /\ hist[n].val = IF Option_isSome(hist[n].recv)
                             THEN OptionValue(hist[n].recv)
                             ELSE hist[n].arg
        /\ hist[n].m = "defaultWith" =>
            IF Option_isSome(hist[n].recv)
            THEN /\ CallsOf(n) = {}
                 /\ hist[n].out = "return"
                 /\ hist[n].val = OptionValue(hist[n].recv)
            ELSE /\ Cardinality(CallsOf(n)) = 1
                 /\ \A k \in CallsOf(n) :
                    calls[k].out = "return" =>
                        hist[n].out = "return" /\ hist[n].val = calls[k].val

\* Option.ofSome(0).defaultWith(fn) returned 0 and fn did not run, then
\* defaultValue(d) returned 0 as well.
C21_Witness ==
    /\ made.ctor = "Option.ofSome"
    /\ made.arg = Zero
    /\ Len(hist) = 2
    /\ hist[1].m = "defaultWith" /\ hist[1].val = Zero
    /\ hist[2].m = "defaultValue" /\ hist[2].arg = <<"d">> /\ hist[2].val = Zero
    /\ calls = <<>>

\* C22: iter(fn) on a Some invokes fn with the value and returns the same
\* Option, so that a map chained on what iter returned maps the value,
\* whatever fn returned.
C22_OptionIterChains ==
    \A n \in Made :
        hist[n].m = "iter" /\ Option_isSome(hist[n].recv) =>
            /\ Cardinality(CallsOf(n)) = 1
            /\ \A k \in CallsOf(n) :
                /\ calls[k].arg = OptionValue(hist[n].recv)
                /\ calls[k].out = "return" =>
                    /\ hist[n].out = "return"
                    /\ hist[n].val = hist[n].recv
                    /\ \A n2 \in Made : n2 = n + 1 => hist[n2].out = "return"

\* The Options of a run: the one constructed, the receivers and the Options
\* methods returned.
Options ==
    {w \in {cur, made.val} \cup {hist[n].recv : n \in Made} \cup {hist[n].val : n \in Made} :
        IsOption(w)}

\* C27: Option.ofSome(null) and Option.ofSome(undefined) throw and produce no
\* Option; map on a Some throws the same error when fn returns null or
\* undefined; no Option that answers isSome() with true holds null or
\* undefined, and isSome() and isNone() of one Option never agree.
C27_NoAbsentSome ==
    /\ made.ctor = "Option.ofSome" /\ made.arg \in {Null, Undefined} =>
        made.out = "throw" /\ made.val = InvalidArgument /\ cur = <<>> /\ hist = <<>>
    /\ \A n \in Made :
        /\ hist[n].m = "map" /\ Option_isSome(hist[n].recv) =>
            \A k \in CallsOf(n) :
                calls[k].out = "return" /\ calls[k].val \in {Null, Undefined} =>
                    hist[n].out = "throw" /\ hist[n].val = InvalidArgument
        /\ hist[n].m = "isSome" /\ hist[n].val = True =>
            OptionValue(hist[n].recv) \notin {Null, Undefined}
        /\ \A n2 \in Made :
            hist[n].m = "isSome" /\ hist[n2].m = "isNone" /\ hist[n].recv = hist[n2].recv =>
                hist[n].val # hist[n2].val
    /\ \A w \in Options : OptionValue(w) # Null

\* Option.ofSome(x).map(fn), fn returning null: map threw the error of
\* Option.ofSome.
C27_Witness ==
    /\ made.ctor = "Option.ofSome"
    /\ made.arg = <<"x">>
    /\ Len(hist) = 1
    /\ hist[1].m = "map"
    /\ Len(calls) = 1 /\ calls[1].out = "return" /\ calls[1].val = Null
    /\ hist[1].out = "throw" /\ hist[1].val = InvalidArgument

\* The static calls of a run: Result.m(a)(r) and Option.m(a)(o).
StaticCalls(T, m) == {n \in Made : hist[n].m = T \o "." \o m}

\* The outcome o is the one call n had: same return or throw, same callback
\* invocations.
SameOutcome(n, o) ==
    /\ hist[n].out = o.out
    /\ hist[n].val = o.val
    /\ Cardinality(CallsOf(n)) = IF o.called THEN 1 ELSE 0
    /\ \A k \in CallsOf(n) :
        calls[k].arg = o.arg /\ calls[k].out = o.ret.out /\ calls[k].val = o.ret.val

\* C25: every instance method m of Result and of Option has a curried static
\* twin, and T.m(a)(w) has the outcome of w.m(a): same result, same callback
\* invocations.
C25_CurriedTwins ==
    /\ \A m \in ResultMethods :
        \A n \in StaticCalls("Result", m) :
            SameOutcome(n, Result_call(m, hist[n].recv, hist[n].arg))
    /\ \A m \in OptionMethods :
        \A n \in StaticCalls("Option", m) :
            SameOutcome(n, Option_call(m, hist[n].recv, hist[n].arg))

\* The promise a callback returned at invocation k of the log, or the promise
\* of the Async it returned.
Nested(k) == promises[RefId(log[k].val)]

\* C23: when the function given to Async.map returns a promise, the Async map
\* returned resolves to that promise itself, not to what the promise resolves
\* to; when the function given to Async.bind returns an Async, the Async bind
\* returned resolves to what that Async resolves to.
C23_MapShallower ==
    \A i \in Stages :
        \A k \in Calls(i) :
            /\ KindOf(i) = "Async.map" /\ log[k].out = "return" /\ IsPromise(log[k].val)
               /\ Fulfilled(Nested(k)) /\ Quiescent =>
                    Fulfilled(Got(i)) /\ Got(i).val = log[k].val
            /\ KindOf(i) = "Async.bind" /\ log[k].out = "return" /\ IsAsync(log[k].val)
               /\ Fulfilled(Nested(k)) /\ Quiescent =>
                    Fulfilled(Got(i)) /\ Got(i).val = Nested(k).val

\* What the code does: the promise then() derives adopts a promise its
\* handler returned, so map resolves to what the nested promise resolves to;
\* only an Async, which is no thenable, is kept as it is.
C23_MapFlattensPromise ==
    \A i \in Stages :
        \A k \in Calls(i) :
            /\ KindOf(i) = "Async.map" /\ log[k].out = "return" /\ IsPromise(log[k].val)
               /\ Fulfilled(Nested(k)) /\ Quiescent =>
                    Fulfilled(Got(i)) /\ Got(i).val = Nested(k).val
            /\ KindOf(i) = "Async.map" /\ log[k].out = "return" /\ IsAsync(log[k].val)
               /\ Quiescent =>
                    Fulfilled(Got(i)) /\ Got(i).val = log[k].val
            /\ KindOf(i) = "Async.bind" /\ log[k].out = "return" /\ IsAsync(log[k].val)
               /\ Fulfilled(Nested(k)) /\ Quiescent =>
                    Fulfilled(Got(i)) /\ Got(i).val = Nested(k).val

\* C24: fn given to Async.iter is invoked at most once, with the value the
\* Async resolved to, and once when nothing is left to run; the callback of a
\* map or bind chained on what iter returned receives that same value,
\* whatever fn returned or threw, and runs after fn.
C24_AsyncIter ==
    \A i \in Stages :
        KindOf(i) = "Async.iter" =>
            /\ Cardinality(Calls(i)) <= 1
            /\ \A k \in Calls(i) : Fulfilled(Recv(i)) /\ log[k].arg = Recv(i).val
            /\ Quiescent /\ Fulfilled(Recv(i)) => Cardinality(Calls(i)) = 1
            /\ \A j \in Stages :
                j > i /\ chain[j].recv = chain[i].p /\ KindOf(j) \in {"Async.map", "Async.bind"} =>
                    /\ \A k2 \in Calls(j) :
                        /\ log[k2].arg = Recv(i).val
                        /\ \E k \in Calls(i) : k < k2
                    /\ Quiescent /\ Fulfilled(Recv(i)) => Calls(j) # {}

\* Async.wrap(x).iter(fn).map(mapper): fn returned a value of its own, then
\* the mapper received x.
C24_Witness ==
    /\ Len(chain) = 3
    /\ KindOf(2) = "Async.iter"
    /\ KindOf(3) = "Async.map"
    /\ Len(log) = 2
    /\ log[1].cb = 2 /\ log[1].arg = <<"x">> /\ log[1].out = "return" /\ log[1].val = <<"h">>
    /\ log[2].cb = 3 /\ log[2].arg = <<"x">>
    /\ Fulfilled(Got(3))

\* C26: value() of pipe(v) returns v; chain(f) invokes f once, with the
\* pipe's value, when chain is called, and returns a pipe whose value() is
\* what f returned; value() invokes nothing; every chain called on one pipe
\* hands its f the same value, whatever was chained on that pipe before.
C26_Pipe ==
    \A n \in Made :
        /\ hist[n].m = "value" =>
            /\ CallsOf(n) = {}
            /\ hist[n].out = "return"
            /\ hist[n].recv = made.val => hist[n].val = made.arg
            /\ \A n0 \in Made :
                hist[n0].m = "chain" /\ hist[n0].out = "return" /\ hist[n].recv = hist[n0].val =>
                    \A k \in CallsOf(n0) : hist[n].val = calls[k].val
        /\ hist[n].m = "chain" =>
            /\ Cardinality(CallsOf(n)) = 1
            /\ \A k \in CallsOf(n) :
                /\ k = Cardinality({k0 \in 1..Len(calls) : calls[k0].op <= n})
                /\ hist[n].recv = made.val => calls[k].arg = made.arg
                /\ calls[k].out = "return" => hist[n].out = "return" /\ IsPipe(hist[n].val)
            /\ \A n2 \in Made :
                hist[n2].m = "chain" /\ hist[n2].recv = hist[n].recv =>
                    \A k \in CallsOf(n), k2 \in CallsOf(n2) : calls[k].arg = calls[k2].arg

\* pipe(x).chain(f) and pipe(x).chain(g) on the same pipe, f returning a value
\* of its own and g returning nothing: both were handed x.
C26_Witness ==
    /\ made.ctor = "pipe"
    /\ made.arg = <<"x">>
    /\ Len(hist) = 2
    /\ hist[1].m = "chain" /\ hist[1].recv = made.val /\ hist[1].val = pipe(<<"f", "x">>)
    /\ hist[2].m = "chain" /\ hist[2].recv = made.val /\ hist[2].val = pipe(Undefined)
    /\ Len(calls) = 2
    /\ calls[1].arg = <<"x">> /\ calls[2].arg = <<"x">>

\* What wrap resolves to for the input it was handed.
Normalized ==
    CASE input.shape = "plain" -> ofValue(input.val)
      [] input.shape = "result" -> input.val
      [] input.st = "rejected" -> ofError(input.val)
      [] IsResult(input.val) -> input.val
      [] OTHER -> ofValue(input.val)

\* Stage i resolved to what its own receiver and its own callback give: for
\* map and mapError the Ok of what the callback returned or the Error of what
\* it threw, for iter and iterError the receiver's Result.
OwnOutcome(i) ==
    CASE KindOf(i) \in {"map", "mapError"} /\ Applicable(i) ->
            \A k \in Calls(i) :
                Got(i).val = IF log[k].out = "throw" THEN ofError(log[k].val)
                             ELSE ofValue(log[k].val)
      [] KindOf(i) \in {"map", "mapError", "iter", "iterError"} -> Got(i).val = Recv(i).val
      [] OTHER -> TRUE

Settled(i) == Got(i).st # "pending"

====
